---- MODULE Spec2Model ----
(***************************************************************************)
(* Model of the discredit clustering pipeline:                             *)
(*   - MessageClusterer (backend/analysis/clusterer.py): the three         *)
(*     clustering operations and the summary they build from a label       *)
(*     vector, and save_clustering_to_db;                                  *)
(*   - DiscreditDB (backend/storage/sqlite_db.py): the clustering_runs and *)
(*     message_clusters tables and the operations on them, on one sqlite3  *)
(*     connection with its implicit transaction.                           *)
(***************************************************************************)
EXTENDS Integers, Sequences, FiniteSets, TLC

VARIABLES
    \* ---- MessageClusterer: one call of a cluster_* method ----
    call,        \* the call just made: method, arguments, label vector produced
    outcome,     \* "none" | "returned" | "raised"
    result       \* the dictionary the call returned (NoResult otherwise)

clusterVars == <<call, outcome, result>>

VARIABLES
    \* ---- DiscreditDB: one sqlite3 connection on the database file ----
    db,          \* the tables as the connection sees them (with its open transaction)
    disk,        \* the tables as committed to the database file
    last,        \* the last call on the store: operation, arguments, outcome
    latest,      \* history: (run, message) -> label of the last executed save, seen by db
    latestDisk,  \* history: the same, as committed
    issued,      \* history: the run ids save_clustering_run returned, in order
    created      \* history: run id -> the arguments save_clustering_run was given

storeVars == <<db, disk, last, latest, latestDisk, issued, created>>

VARIABLES
    \* ---- MessageClusterer: what save_clustering_to_db reads and writes ----
    message_ids,   \* self.message_ids, as load_embeddings set it
    results,       \* self.results: result key -> result dictionary
    suffixTables,  \* the tables message_clusters<suffix>, suffix not empty
    lastSave       \* the last call on the clusterer: operation, arguments, outcome

saveVars == <<message_ids, results, suffixTables, lastSave>>

VARIABLES
    \* ---- MessageClusterer: what load_embeddings and load_messages set ----
    embeddings,    \* self.embeddings: the matrix, a sequence of rows
    messages,      \* self.messages: the ids load_messages found in the store
    fitted         \* history: k -> what cluster_kmeans(k) gave on this matrix, in order

loadVars == <<embeddings, messages, fitted>>

VARIABLES
    \* ---- main(): one run of the command line ----
    pc,            \* the statement main is at
    args,          \* the parsed command line
    exit           \* {} while running; then the exit status and where main ended

mainVars == <<pc, args, exit>>

VARIABLES
    \* ---- DiscreditDB: the users and embeddings_reference tables ----
    users,                 \* users: id -> platform, username, message_count
    embeddings_reference,  \* embeddings_reference: message_id -> chromadb_id
    referenced             \* history: the ids insert_embedding_reference answered True for

userVars == <<users, embeddings_reference, referenced>>

VARIABLES
    \* ---- DiscordScraper ----
    request,         \* the last _make_request call, and stats['api_calls']
    channel,         \* the channel as the API serves it: its messages, newest first
    checkpointFile,  \* the checkpoint file: {} while there is none
    scraper          \* one DiscordScraper in scrape_messages: its locals and checkpoint

scraperVars == <<request, channel, checkpointFile, scraper>>

VARIABLES
    \* ---- VectorStore and MessageEmbedder ----
    embedCall,     \* the last _embed_batch call: arguments, API outcomes, result
    collection,    \* the ids held by the vector store's collection
    embedder       \* one MessageEmbedder: its stats and its last embed_messages call

embedVars == <<embedCall, collection, embedder>>

extVars == <<userVars, scraperVars, embedVars>>

vars == <<call, outcome, result, db, disk, last, latest, latestDisk, issued,
          created, message_ids, results, suffixTables, lastSave,
          embeddings, messages, fitted, pc, args, exit,
          users, embeddings_reference, referenced,
          request, channel, checkpointFile, scraper,
          embedCall, collection, embedder>>

(***************************************************************************)
(* Bounds                                                                  *)
(***************************************************************************)
MaxN == 4          \* most points (rows of the embedding matrix)
MaxLabel == 2      \* largest cluster label a label vector uses
MaxK == 3          \* largest k given to cluster_kmeans

NOISE == -1        \* the label of a noise point

(***************************************************************************)
(* Label vectors                                                           *)
(***************************************************************************)
SeqsUpTo(S, n) == UNION {[1..m -> S] : m \in 0..n}

LabelsOf(labels) == {labels[i] : i \in DOMAIN labels}

\* np.sum(labels == c)
CountOf(labels, c) == Cardinality({i \in DOMAIN labels : labels[i] = c})

\* labels[labels != -1]
Masked(labels) == SelectSeq(labels, LAMBDA l : l # NOISE)

RECURSIVE SumOver(_, _)
\* sum(f.values()) over the keys in S
SumOver(f, S) ==
    IF S = {} THEN 0
    ELSE LET c == CHOOSE x \in S : TRUE IN f[c] + SumOver(f, S \ {c})

SumValues(f) == SumOver(f, DOMAIN f)

\* n_clusters = len(set(labels)) - (1 if -1 in labels else 0)
NClusters(labels) ==
    Cardinality(LabelsOf(labels)) - (IF NOISE \in LabelsOf(labels) THEN 1 ELSE 0)

\* n_noise = np.sum(labels == -1)
NNoise(labels) == CountOf(labels, NOISE)

\* a plausible slip: the size table built from the unmasked label vector
ClusterSizesUnmasked(labels) ==
    [c \in LabelsOf(labels) |-> CountOf(labels, c)]

\* unique, counts = np.unique(labels[labels != -1], return_counts=True)
\* cluster_sizes = dict(zip(unique, counts))
ClusterSizesDensity(labels) ==
    [c \in LabelsOf(Masked(labels)) |-> CountOf(Masked(labels), c)]

\* unique, counts = np.unique(labels, return_counts=True)   (cluster_kmeans)
ClusterSizesKmeans(labels) ==
    [c \in LabelsOf(labels) |-> CountOf(labels, c)]

(***************************************************************************)
(* Quality metrics.  The three sklearn scores share one precondition       *)
(* (check_number_of_labels): 2 <= number of labels <= n_samples - 1, and   *)
(* raise ValueError otherwise.  A score's value is not modelled, only      *)
(* which keys the result holds.                                            *)
(***************************************************************************)
MetricKeys == {"silhouette_score", "calinski_harabasz_score", "davies_bouldin_score"}

MetricRaises(labels) ==
    LET n == Cardinality(LabelsOf(labels))
    IN ~(1 < n /\ n < Len(labels))

NoResult == [method |-> "none"]

(***************************************************************************)
(* What the clustering libraries can hand back                             *)
(***************************************************************************)
\* hdbscan.HDBSCAN(min_cluster_size=mcs).fit_predict on n rows: a label per
\* row, -1 for noise, every cluster of at least mcs points.
HdbscanLabelings(n, mcs) ==
    {l \in [1..n -> NOISE..MaxLabel] :
        \A c \in LabelsOf(l) \ {NOISE} : CountOf(l, c) >= mcs}

\* KMeans(n_clusters=k).fit_predict on n rows: a label in 0..k-1 per row.
KmeansLabelings(n, k) == [1..n -> 0..(k - 1)]

(***************************************************************************)
(* cluster_hdbscan / cluster_umap_hdbscan: the summary of a label vector   *)
(***************************************************************************)
\* if n_clusters > 1 and np.sum(mask) > 0: (the three scores)
DensityComputesMetrics(labels) ==
    NClusters(labels) > 1 /\ Len(Masked(labels)) > 0

DensityResult(method, parameters, labels) ==
    [method |-> method,
     parameters |-> parameters,
     labels |-> labels,
     n_clusters |-> NClusters(labels),
     n_noise |-> NNoise(labels),
     n_samples |-> Len(labels),
     metrics |-> IF DensityComputesMetrics(labels) THEN MetricKeys ELSE {},
     cluster_sizes |-> ClusterSizesDensity(labels)]

DensityRaises(labels) ==
    DensityComputesMetrics(labels) /\ MetricRaises(Masked(labels))

\* a slip: the clusters counted from the labels, as the density methods do
KmeansResultCountingLabels(k, labels) ==
    [method |-> "kmeans",
     parameters |-> [k |-> k, use_minibatch |-> TRUE],
     labels |-> labels,
     n_clusters |-> NClusters(labels),
     n_noise |-> NNoise(labels),
     n_samples |-> Len(labels),
     metrics |-> MetricKeys,
     cluster_sizes |-> ClusterSizesKmeans(labels)]

\* cluster_kmeans: the scores are computed unconditionally
KmeansResult(k, labels) ==
    [method |-> "kmeans",
     parameters |-> [k |-> k, use_minibatch |-> TRUE],
     labels |-> labels,
     n_clusters |-> k,
     n_noise |-> 0,
     n_samples |-> Len(labels),
     metrics |-> MetricKeys,
     cluster_sizes |-> ClusterSizesKmeans(labels)]

KmeansRaises(labels) == MetricRaises(labels)

(***************************************************************************)
(* Actions of the clusterer                                                *)
(***************************************************************************)
ClusterInit ==
    /\ call = [method |-> "none"]
    /\ outcome = "none"
    /\ result = NoResult

\* normalize(self.embeddings) rejects a matrix of no rows (ValueError)
ClusterHdbscan ==
    /\ UNCHANGED <<storeVars, saveVars, loadVars, mainVars, extVars>>
    /\ \E n \in 0..MaxN, mcs \in 2..3, ms \in 1..2 :
        \/ /\ n = 0
           /\ call' = [method |-> "hdbscan", n |-> n, min_cluster_size |-> mcs,
                       labels |-> <<>>]
           /\ outcome' = "raised"
           /\ result' = NoResult
        \/ /\ n > 0
           /\ \E labels \in HdbscanLabelings(n, mcs) :
                /\ call' = [method |-> "hdbscan", n |-> n,
                            min_cluster_size |-> mcs, labels |-> labels]
                /\ IF DensityRaises(labels)
                   THEN outcome' = "raised" /\ result' = NoResult
                   ELSE /\ outcome' = "returned"
                        /\ result' = DensityResult("hdbscan",
                              [min_cluster_size |-> mcs, min_samples |-> ms,
                               metric |-> "euclidean"], labels)

\* umap.UMAP(...).fit_transform, then HDBSCAN on the reduced matrix
ClusterUmapHdbscan ==
    /\ UNCHANGED <<storeVars, saveVars, loadVars, mainVars, extVars>>
    /\ \E n \in 1..MaxN, mcs \in 2..3, ms \in 1..2 :
        \E labels \in HdbscanLabelings(n, mcs) :
            /\ call' = [method |-> "umap_hdbscan", n |-> n,
                        min_cluster_size |-> mcs, labels |-> labels]
            /\ IF DensityRaises(labels)
               THEN outcome' = "raised" /\ result' = NoResult
               ELSE /\ outcome' = "returned"
                    /\ result' = DensityResult("umap_hdbscan",
                          [n_components |-> 50, min_cluster_size |-> mcs,
                           min_samples |-> ms], labels)

\* KMeans.fit_predict needs n_samples >= n_clusters
ClusterKmeans ==
    /\ UNCHANGED <<storeVars, saveVars, loadVars, mainVars, extVars>>
    /\ \E n \in 0..MaxN, k \in 1..MaxK :
        \/ /\ (n = 0 \/ n < k)
           /\ call' = [method |-> "kmeans", n |-> n, k |-> k, labels |-> <<>>]
           /\ outcome' = "raised"
           /\ result' = NoResult
        \/ /\ n > 0 /\ n >= k
           /\ \E labels \in KmeansLabelings(n, k) :
                /\ call' = [method |-> "kmeans", n |-> n, k |-> k,
                            labels |-> labels]
                /\ IF KmeansRaises(labels)
                   THEN outcome' = "raised" /\ result' = NoResult
                   ELSE /\ outcome' = "returned"
                        /\ result' = KmeansResult(k, labels)

ClusterNext == ClusterHdbscan \/ ClusterUmapHdbscan \/ ClusterKmeans

(***************************************************************************)
(* DiscreditDB: the store                                                  *)
(*                                                                         *)
(* A table is modelled by its rows.  clustering_runs is a function from    *)
(* the id column to the other columns; message_clusters is a set of rows   *)
(* (its id and created_at columns are not modelled; the field `partial`    *)
(* is history, not a column: TRUE for a row written by a call that then    *)
(* failed).  Foreign keys are declared but not enforced (no PRAGMA         *)
(* foreign_keys), so an assignment may name a run or a message that has no *)
(* row.                                                                    *)
(***************************************************************************)
MaxRuns == 3       \* most run ids handed out (cap on the AUTOINCREMENT counter)
MaxLen == 2        \* longest message_ids / cluster_labels list given to a save

None == "None"
MsgIds == {"m1", "m2"}
OrderMsgIds == MsgIds \cup {"m3"}
Timestamps == {1, 2}
StoreLabels == {NOISE, 0}
AssignRuns == {1, 2}     \* the run ids assignments are saved under

(***************************************************************************)
(* Python values and JSON text.  A dict is the set of its items (key,      *)
(* value); the keys are strings (Dict[str, Any]).  A JSON document is      *)
(* modelled by its tokens: a number written without or with a fraction, a  *)
(* quoted string, or one of the literals true and false.                   *)
(***************************************************************************)
PyInt(i) == [type |-> "int", int |-> i, str |-> ""]
PyFloat(i) == [type |-> "float", int |-> i, str |-> ""]
PyStr(s) == [type |-> "str", int |-> 0, str |-> s]
PyBool(b) == [type |-> "bool", int |-> IF b THEN 1 ELSE 0, str |-> ""]

\* json.dumps of a value
JsonDumpsValue(v) ==
    CASE v.type = "int" -> [token |-> "integer", int |-> v.int, str |-> ""]
      [] v.type = "float" -> [token |-> "fraction", int |-> v.int, str |-> ""]
      [] v.type = "str" -> [token |-> "string", int |-> 0, str |-> v.str]
      [] v.type = "bool" ->
            [token |-> IF v.int = 1 THEN "true" ELSE "false", int |-> 0, str |-> ""]

\* json.loads of a value
JsonLoadsValue(j) ==
    CASE j.token = "integer" -> PyInt(j.int)
      [] j.token = "fraction" -> PyFloat(j.int)
      [] j.token = "string" -> PyStr(j.str)
      [] j.token = "true" -> PyBool(TRUE)
      [] j.token = "false" -> PyBool(FALSE)

\* json.dumps(d) of a dict
JsonDumps(d) == {[key |-> it.key, value |-> JsonDumpsValue(it.value)] : it \in d}

\* json.loads(text) of an object
JsonLoads(text) ==
    {[key |-> it.key, value |-> JsonLoadsValue(it.value)] : it \in text}

Item(k, v) == [key |-> k, value |-> v]

\* what a caller passes to save_clustering_run (an Optional argument is a
\* set: {} for None, {v} for the value v; so {{}} is an empty dict)
RunInputs ==
    {[method |-> "hdbscan",
      parameters |-> {Item("min_cluster_size", PyInt(5))},
      n_clusters |-> 0, n_noise |-> 2, n_samples |-> 2,
      silhouette_score |-> {}, quality_metrics |-> {}],
     [method |-> "kmeans",
      parameters |-> {Item("k", PyInt(2)), Item("use_minibatch", PyBool(TRUE))},
      n_clusters |-> 2, n_noise |-> 0, n_samples |-> 2,
      silhouette_score |-> {0},
      quality_metrics |-> {{Item("davies_bouldin_score", PyFloat(0))}}],
     [method |-> "umap_hdbscan",
      parameters |-> {Item("n_components", PyInt(50))},
      n_clusters |-> 1, n_noise |-> 1, n_samples |-> 2,
      silhouette_score |-> {}, quality_metrics |-> {{}}],
     [method |-> "umap_hdbscan",
      parameters |-> {Item("n_components", PyInt(50)),
                      Item("metric", PyStr("euclidean"))},
      n_clusters |-> 2, n_noise |-> 0, n_samples |-> 2,
      silhouette_score |-> {1}, quality_metrics |-> {}],
     [method |-> "kmeans",
      parameters |-> {Item("k", PyInt(2)), Item("use_minibatch", PyBool(FALSE))},
      n_clusters |-> 2, n_noise |-> 0, n_samples |-> 2,
      silhouette_score |-> {},
      quality_metrics |-> {{Item("silhouette_score", PyFloat(1)),
                            Item("calinski_harabasz_score", PyFloat(0))}}]}

\* the row save_clustering_run inserts (id and created_at apart):
\* json.dumps(parameters), and
\* json.dumps(quality_metrics) if quality_metrics else None
RunRow(input) ==
    [method |-> input.method,
     parameters |-> JsonDumps(input.parameters),
     n_clusters |-> input.n_clusters,
     n_noise |-> input.n_noise,
     n_samples |-> input.n_samples,
     silhouette_score |-> input.silhouette_score,
     quality_metrics |-> {JsonDumps(d) : d \in {x \in input.quality_metrics : x # {}}}]

EmptyTables ==
    [messages |-> <<>>, runs |-> <<>>, seqRuns |-> 0, clusters |-> {}]

Max2(a, b) == IF a >= b THEN a ELSE b
Min2(a, b) == IF a <= b THEN a ELSE b

MaxKey(f) == IF DOMAIN f = {} THEN 0
             ELSE CHOOSE k \in DOMAIN f : \A j \in DOMAIN f : j <= k

\* a rowid chosen without AUTOINCREMENT: one more than the largest present
NextRunIdReusing(t) == MaxKey(t.runs) + 1

\* id INTEGER PRIMARY KEY AUTOINCREMENT: one more than the largest id the
\* table ever held (sqlite_sequence keeps it)
NextRunId(t) == Max2(t.seqRuns, MaxKey(t.runs)) + 1

\* a slip: the check of the lengths left out
LengthsMatchUnchecked(msg_ids, cluster_labels) == TRUE

\* if len(message_ids) != len(cluster_labels): raise ValueError
LengthsMatch(msg_ids, cluster_labels) ==
    Len(msg_ids) = Len(cluster_labels)

\* a slip: plain insertion, the row of the same pair kept
InsertKeepingOld(rows, row) == rows \cup {row}

\* a slip: the conflict decided on message_id alone
InsertOrReplaceByMessage(rows, row) ==
    {r \in rows : r.msg # row.msg} \cup {row}

\* INSERT OR REPLACE under UNIQUE(clustering_run_id, message_id): the row
\* of the same pair is deleted, the new one inserted
InsertOrReplace(rows, row) ==
    {r \in rows : ~(r.run = row.run /\ r.msg = row.msg)} \cup {row}

\* message_id TEXT NOT NULL: a row without a message id is rejected
Rejected(msg_ids) == {i \in DOMAIN msg_ids : msg_ids[i] = None}

FirstRejected(msg_ids) ==
    IF Rejected(msg_ids) = {} THEN 0
    ELSE CHOOSE i \in Rejected(msg_ids) :
            \A j \in Rejected(msg_ids) : i <= j

RECURSIVE ExecuteMany(_, _, _, _, _, _)
\* cursor.executemany over the first k of zip(message_ids, cluster_labels)
ExecuteMany(rows, run, msg_ids, cluster_labels, k, failing) ==
    IF k = 0 THEN rows
    ELSE InsertOrReplace(
            ExecuteMany(rows, run, msg_ids, cluster_labels, k - 1, failing),
            [run |-> run, msg |-> msg_ids[k], label |-> cluster_labels[k],
             partial |-> failing])

\* history: the label each pair was last given by the first k rows of a save
\* ({} for a pair never saved, {label} otherwise)
Recorded(h, run, msg_ids, cluster_labels, k) ==
    [p \in DOMAIN h |->
        LET hits == {i \in 1..k : p = <<run, msg_ids[i]>>}
        IN IF hits = {} THEN h[p]
           ELSE {cluster_labels[CHOOSE i \in hits : \A j \in hits : j <= i]}]

\* a slip: the run left out of the WHERE clause
ClusterMessageIdsAnyRun(t, run, c) ==
    {m \in DOMAIN t.messages :
        \E r \in t.clusters : r.msg = m /\ r.label = c}

\* SELECT m.* FROM messages m JOIN message_clusters mc ON m.id = mc.message_id
\* WHERE mc.clustering_run_id = ? AND mc.cluster_id = ?      (the ids selected)
ClusterMessageIds(t, run, c) ==
    {m \in DOMAIN t.messages :
        \E r \in t.clusters : r.run = run /\ r.msg = m /\ r.label = c}

\* a slip: ORDER BY m.timestamp without DESC
FirstInOrderAscending(t, ids) ==
    CHOOSE m \in ids :
        \A o \in ids : t.messages[m].timestamp <= t.messages[o].timestamp

\* ORDER BY m.timestamp DESC: the row that comes first among those of ids
\* (rows of equal timestamp come in an order SQL does not fix)
FirstInOrder(t, ids) ==
    CHOOSE m \in ids :
        \A o \in ids : t.messages[m].timestamp >= t.messages[o].timestamp

RECURSIVE OrderByTimestamp(_, _)
OrderByTimestamp(t, ids) ==
    IF ids = {} THEN <<>>
    ELSE LET m == FirstInOrder(t, ids)
         IN <<[id |-> m, timestamp |-> t.messages[m].timestamp]>>
            \o OrderByTimestamp(t, ids \ {m})

\* if limit: query += f" LIMIT {limit}"   (limit is a set: {} for None; None
\* and 0 add no LIMIT clause, and a negative LIMIT is no limit in SQLite)
Limited(rows, limit) ==
    IF \E n \in limit : n > 0
    THEN SubSeq(rows, 1, Min2(Len(rows), CHOOSE n \in limit : TRUE))
    ELSE rows

\* get_cluster_messages(clustering_run_id, cluster_id, limit): the list of
\* message rows it returns
GetClusterMessages(t, run, c, limit) ==
    Limited(OrderByTimestamp(t, ClusterMessageIds(t, run, c)), limit)

\* a slip: the parameters column handed back as the text it holds
GetClusteringRunUnparsed(t, id) ==
    IF id \in DOMAIN t.runs THEN {t.runs[id]} ELSE {}

\* a slip: an absent quality_metrics handed back as a dict without entries
GetClusteringRunDefaulting(t, id) ==
    IF id \in DOMAIN t.runs
    THEN {[t.runs[id] EXCEPT
             !.parameters = JsonLoads(@),
             !.quality_metrics =
                 IF @ = {} THEN {{}} ELSE {JsonLoads(text) : text \in @}]}
    ELSE {}

\* get_clustering_run: SELECT * FROM clustering_runs WHERE id = ?; the
\* parameters parsed, quality_metrics parsed if it is not NULL ({} for None)
GetClusteringRun(t, id) ==
    IF id \in DOMAIN t.runs
    THEN {[t.runs[id] EXCEPT
             !.parameters = JsonLoads(@),
             !.quality_metrics = {JsonLoads(text) : text \in @}]}
    ELSE {}

StoreInit ==
    /\ db = EmptyTables
    /\ disk = EmptyTables
    /\ last = [op |-> "none"]
    /\ latest = [p \in AssignRuns \X MsgIds |-> {}]
    /\ latestDisk = [p \in AssignRuns \X MsgIds |-> {}]
    /\ issued = <<>>
    /\ created = <<>>

\* platform TEXT NOT NULL CHECK(platform IN ('discord', 'reddit'))
Platforms == {"discord", "reddit"}

\* the NOT NULL and CHECK constraints of a messages row (None is NULL)
MessageConstraints(platform, content, author_id) ==
    /\ platform \in Platforms
    /\ content # None
    /\ author_id # None

\* the INSERT of insert_message goes through on the messages table t: the id
\* is new and the constraints hold; otherwise sqlite3 raises IntegrityError
MessageInserts(t, id, platform, content, author_id) ==
    /\ id \notin DOMAIN t
    /\ MessageConstraints(platform, content, author_id)

MessageRow(platform, content, author_id, ts) ==
    [timestamp |-> ts, platform |-> platform, content |-> content,
     author_id |-> author_id]

\* insert_message: INSERT, commit, True; IntegrityError (a duplicate id, or a
\* constraint of the table) is caught and answered with False, and nothing is
\* committed then
InsertMessageRowCall(id, platform, content, author_id, ts) ==
    LET answer(ret) == [op |-> "insert_message", ret |-> ret, id |-> id,
                        existed |-> id \in DOMAIN db.messages]
    IN IF ~MessageInserts(db.messages, id, platform, content, author_id)
       THEN /\ last' = answer(FALSE)
            /\ UNCHANGED <<db, disk, latest, latestDisk, issued, created>>
       ELSE /\ db' = [db EXCEPT !.messages =
                        (id :> MessageRow(platform, content, author_id, ts)) @@ @]
            /\ disk' = db'
            /\ latestDisk' = latest
            /\ last' = answer(TRUE)
            /\ UNCHANGED <<latest, issued, created>>

\* insert_message of a well-formed Discord message
InsertMessageCall(id, ts) ==
    InsertMessageRowCall(id, "discord", "hello", "u1", ts)

\* save_clustering_run: INSERT INTO clustering_runs, commit, return lastrowid
SaveClusteringRunCall(input) ==
    /\ db.seqRuns < MaxRuns
    /\ LET id == NextRunId(db)
       IN /\ db' = [db EXCEPT !.runs = (id :> RunRow(input)) @@ @,
                               !.seqRuns = id]
          /\ disk' = db'
          /\ latestDisk' = latest
          /\ issued' = Append(issued, id)
          /\ created' = (id :> input) @@ created
          /\ last' = [op |-> "save_clustering_run", ret |-> id]
          /\ UNCHANGED latest

\* save_cluster_assignments(clustering_run_id, message_ids, cluster_labels)
SaveClusterAssignmentsCall(run, msg_ids, cluster_labels) ==
    LET given == [op |-> "save_cluster_assignments", run |-> run,
                 n_ids |-> Len(msg_ids), n_labels |-> Len(cluster_labels)]
        n == Min2(Len(msg_ids), Len(cluster_labels))
        bad == FirstRejected(SubSeq(msg_ids, 1, n))
        k == IF bad = 0 THEN n ELSE bad - 1
    IN IF ~LengthsMatch(msg_ids, cluster_labels)
       THEN /\ last' = given @@ [outcome |-> "ValueError"]
            /\ UNCHANGED <<db, disk, latest, latestDisk, issued, created>>
       ELSE /\ db' = [db EXCEPT !.clusters =
                         ExecuteMany(@, run, msg_ids, cluster_labels,
                                     k, bad # 0)]
            /\ latest' = Recorded(latest, run, msg_ids, cluster_labels, k)
            /\ IF bad = 0
               THEN /\ disk' = db'
                    /\ latestDisk' = latest'
                    /\ last' = given @@ [outcome |-> "ok"]
               ELSE /\ last' = given @@ [outcome |-> "IntegrityError"]
                    /\ UNCHANGED <<disk, latestDisk>>
            /\ UNCHANGED <<issued, created>>

\* DELETE FROM clustering_runs WHERE id = ?, from a sqlite shell; the file
\* is locked against it while the connection holds an open transaction
DeleteRunCall(id) ==
    /\ id \in DOMAIN db.runs
    /\ db = disk
    /\ db' = [db EXCEPT !.runs = [j \in DOMAIN @ \ {id} |-> @[j]]]
    /\ disk' = db'
    /\ last' = [op |-> "delete_run", id |-> id]
    /\ UNCHANGED <<latest, latestDisk, issued, created>>

\* close(), then DiscreditDB(db_path) again: the open transaction is lost
CloseAndReopen ==
    /\ UNCHANGED <<clusterVars, saveVars, loadVars, mainVars, extVars>>
    /\ db' = disk
    /\ latest' = latestDisk
    /\ last' = [op |-> "close"]
    /\ UNCHANGED <<disk, latestDisk, issued, created>>

(***************************************************************************)
(* MessageClusterer.save_clustering_to_db(result_key, table_suffix)        *)
(*                                                                         *)
(* It writes the table message_clusters<table_suffix> through the store's  *)
(* connection.  With the empty suffix that is the table initialize_schema  *)
(* created; with another suffix it is a table of its own, keyed by         *)
(* message_id (a table not yet created is modelled as one without rows).   *)
(***************************************************************************)
Suffixes == {"", "_a", "_b"}
ResultKeys == {"hdbscan", "umap_hdbscan"}

\* the columns of message_clusters as initialize_schema creates it
SchemaColumns ==
    {"id", "clustering_run_id", "message_id", "cluster_id", "created_at"}

\* the columns of message_clusters<suffix> as save_clustering_to_db creates it
SuffixColumns ==
    {"message_id", "cluster_id", "method", "parameters", "created_at"}

\* the columns its INSERT OR REPLACE names
InsertedColumns ==
    {"message_id", "cluster_id", "method", "parameters", "created_at"}

\* CREATE TABLE IF NOT EXISTS leaves an existing table as it is
ColumnsOf(suffix) == IF suffix = "" THEN SchemaColumns ELSE SuffixColumns

RECURSIVE ReplaceByMessageId(_, _, _, _)
\* executemany(INSERT OR REPLACE ...) under message_id TEXT PRIMARY KEY, over
\* the first k of (message_ids[i], labels[i], method, params_json)
ReplaceByMessageId(table, ids, res, k) ==
    IF k = 0 THEN table
    ELSE (ids[k] :> [cluster_id |-> res.labels[k], method |-> res.method,
                     parameters |-> res.parameters])
         @@ ReplaceByMessageId(table, ids, res, k - 1)

SaveInit ==
    /\ message_ids = <<"m1", "m2">>
    /\ results = <<>>
    /\ suffixTables = [s \in Suffixes \ {""} |-> <<>>]
    /\ lastSave = [op |-> "none"]

\* main: result = clusterer.cluster_hdbscan(...); clusterer.results['hdbscan'] = result
RunHdbscan ==
    /\ UNCHANGED <<clusterVars, storeVars, message_ids, suffixTables, loadVars,
                   mainVars, extVars>>
    /\ Len(message_ids) > 0
    /\ \E labels \in HdbscanLabelings(Len(message_ids), 2) :
          /\ ~DensityRaises(labels)
          /\ results' = ("hdbscan" :>
                DensityResult("hdbscan",
                    [min_cluster_size |-> 2, min_samples |-> 1,
                     metric |-> "euclidean"], labels)) @@ results
          /\ lastSave' = [op |-> "cluster_hdbscan"]

\* main: result = clusterer.cluster_umap_hdbscan(...); results['umap_hdbscan'] = result
RunUmapHdbscan ==
    /\ UNCHANGED <<clusterVars, storeVars, message_ids, suffixTables, loadVars,
                   mainVars, extVars>>
    /\ Len(message_ids) > 0
    /\ \E labels \in HdbscanLabelings(Len(message_ids), 2) :
          /\ ~DensityRaises(labels)
          /\ results' = ("umap_hdbscan" :>
                DensityResult("umap_hdbscan",
                    [n_components |-> 50, min_cluster_size |-> 2,
                     min_samples |-> 1], labels)) @@ results
          /\ lastSave' = [op |-> "cluster_umap_hdbscan"]

\* save_clustering_to_db; what it returns is a set: {} for None
SaveClusteringToDbCall(result_key, table_suffix) ==
    LET given == [op |-> "save_clustering_to_db", key |-> result_key,
                 suffix |-> table_suffix]
    IN /\ UNCHANGED <<clusterVars, message_ids, results>>
       /\ IF result_key \notin DOMAIN results
          THEN \* "Result not found": return
               /\ lastSave' = given @@ [outcome |-> "returned", ret |-> {}]
               /\ UNCHANGED <<storeVars, suffixTables>>
          ELSE IF ~(InsertedColumns \subseteq ColumnsOf(table_suffix))
          THEN \* sqlite3.OperationalError: table has no column named method
               /\ lastSave' = given @@ [outcome |-> "raised", ret |-> {}]
               /\ UNCHANGED <<storeVars, suffixTables>>
          ELSE /\ suffixTables' = [suffixTables EXCEPT ![table_suffix] =
                      ReplaceByMessageId(@, message_ids, results[result_key],
                                         Len(results[result_key].labels))]
               \* self.db.conn.commit()
               /\ disk' = db
               /\ latestDisk' = latest
               /\ UNCHANGED <<db, last, latest, issued, created>>
               /\ lastSave' = given @@ [outcome |-> "returned", ret |-> {}]

SaveClusteringToDb ==
    /\ UNCHANGED <<loadVars, mainVars, extVars>>
    /\ \E result_key \in ResultKeys, table_suffix \in Suffixes :
          SaveClusteringToDbCall(result_key, table_suffix)

(***************************************************************************)
(* The embedding matrix.  A row stands for one normalised embedding and is *)
(* modelled by a single integer coordinate, which is enough to tell a      *)
(* nearer row from a farther one.                                          *)
(***************************************************************************)
MaxRows == 3       \* most rows load_embeddings gets from the collection
MaxCoord == 1      \* largest coordinate of a row
MaxCalls == 2      \* most calls of cluster_kmeans with one k on one matrix

RANDOM_STATE == 42 \* KMeans(random_state=42) / MiniBatchKMeans(random_state=42)

AllIds == <<"m1", "m2", "m3", "m4", "m5">>

Matrices == SeqsUpTo(0..MaxCoord, MaxRows)

\* the seeds a generator without random_state may start from (OS entropy)
Entropy == 0..2

\* a slip: random_state left out of the constructor
SeedsOfUnseeded(random_state) == Entropy

\* the generator of an estimator built with an integer random_state starts
\* from that seed
SeedsOf(random_state) == {random_state}

Distance(a, b) == IF a >= b THEN a - b ELSE b - a

\* the initial centres a seeded generator picks: k distinct rows
InitialCentre(X, seed, j) == X[((seed + j) % Len(X)) + 1]

\* fit_predict: each row gets the label of its nearest centre (the lowest
\* label among equally near ones).  The iterations that move the centres
\* are a function of the initial centres and are not modelled.
KmeansFit(X, k, seed) ==
    [i \in 1..Len(X) |->
        CHOOSE j \in 0..(k - 1) :
            \A o \in 0..(k - 1) :
                \/ Distance(X[i], InitialCentre(X, seed, j))
                      < Distance(X[i], InitialCentre(X, seed, o))
                \/ /\ Distance(X[i], InitialCentre(X, seed, j))
                         = Distance(X[i], InitialCentre(X, seed, o))
                   /\ j <= o]

LoadInit ==
    /\ embeddings = <<0, 1>>
    /\ messages = {}
    /\ fitted = [k \in 1..MaxK |-> <<>>]

MainInit ==
    /\ pc = "start"
    /\ args = [method |-> "none"]
    /\ exit = {}

\* a load_embeddings that prints no dimension and so returns the empty matrix
LoadEmbeddingsNeverRaises(X) == FALSE

\* load_embeddings: self.message_ids and self.embeddings from the collection,
\* then the two prints; np.array([]) of an empty collection has one axis, so
\* self.embeddings.shape[1] raises IndexError.  main calls it once, before
\* any clustering.  TRUE iff it raises.
LoadEmbeddingsRaises(X) == Len(X) = 0

LoadEmbeddingsCall(X) ==
    /\ results = <<>>
    /\ Len(X) <= Len(AllIds)
    /\ message_ids' = SubSeq(AllIds, 1, Len(X))
    /\ embeddings' = X
    /\ fitted' = [k \in 1..MaxK |-> <<>>]

LoadEmbeddings ==
    /\ UNCHANGED <<clusterVars, storeVars, results, suffixTables, messages,
                   mainVars, extVars>>
    /\ \E X \in Matrices :
          /\ LoadEmbeddingsCall(X)
          /\ lastSave' = [op |-> "load_embeddings",
                          outcome |-> IF LoadEmbeddingsRaises(X)
                                      THEN "raised" ELSE "returned"]

\* cluster_kmeans(k) on self.embeddings
ClusterKmeansOnMatrix ==
    /\ UNCHANGED <<storeVars, saveVars, embeddings, messages, mainVars, extVars>>
    /\ \E k \in 1..MaxK, seed \in SeedsOf(RANDOM_STATE) :
        LET n == Len(embeddings)
            labels == KmeansFit(embeddings, k, seed)
        IN /\ Len(fitted[k]) < MaxCalls
           /\ IF n = 0 \/ n < k
              THEN /\ call' = [method |-> "kmeans", n |-> n, k |-> k,
                               labels |-> <<>>]
                   /\ outcome' = "raised"
                   /\ result' = NoResult
              ELSE /\ call' = [method |-> "kmeans", n |-> n, k |-> k,
                               labels |-> labels]
                   /\ IF KmeansRaises(labels)
                      THEN outcome' = "raised" /\ result' = NoResult
                      ELSE /\ outcome' = "returned"
                           /\ result' = KmeansResult(k, labels)
           /\ fitted' = [fitted EXCEPT ![k] =
                            Append(@, [outcome |-> outcome', labels |-> call'.labels])]

(***************************************************************************)
(* load_messages and analyze_cluster_samples                               *)
(***************************************************************************)
MaxSamples == 2    \* largest samples_per_cluster given

\* load_messages(message_ids): the ids self.db.get_message finds
LoadMessagesCall(ids) ==
    messages' = {ids[i] : i \in {j \in DOMAIN ids : ids[j] \in DOMAIN db.messages}}

LoadMessages ==
    /\ UNCHANGED <<clusterVars, storeVars, message_ids, results, suffixTables,
                   embeddings, fitted, mainVars, extVars>>
    /\ LoadMessagesCall(message_ids)
    /\ lastSave' = [op |-> "load_messages"]

\* cluster_msg_ids = [self.message_ids[i] for i in np.where(mask)[0]]
ClusterMsgIds(labels, ids, c) ==
    {ids[i] : i \in {j \in DOMAIN labels : labels[j] = c}}

\* np.random.choice(a, size, replace=False): size entries of a, no entry
\* twice, in any order
Choices(a, size) ==
    {q \in [1..size -> a] : \A i, j \in 1..size : i # j => q[i] # q[j]}

\* sample_size = min(samples_per_cluster, len(cluster_msg_ids))
SampleSize(labels, ids, c, samples_per_cluster) ==
    Min2(samples_per_cluster, Cardinality(ClusterMsgIds(labels, ids, c)))

\* a slip: the noise label sampled like a cluster
SampledLabelsWithNoise(labels) == LabelsOf(labels)

\* for cluster_id in sorted(set(labels)): if cluster_id == -1: continue
SampledLabels(labels) == LabelsOf(labels) \ {NOISE}

\* what the generator may draw for every cluster of the result
Samplings(labels, ids, samples_per_cluster) ==
    LET draws(c) == Choices(ClusterMsgIds(labels, ids, c),
                            SampleSize(labels, ids, c, samples_per_cluster))
    IN {f \in [SampledLabels(labels) ->
                  UNION {draws(c) : c \in SampledLabels(labels)}] :
            \A c \in SampledLabels(labels) : f[c] \in draws(c)}

\* cluster_samples, given what was drawn: the size of each cluster and the
\* samples whose message is in self.messages
ClusterSamples(labels, sampled) ==
    [c \in DOMAIN sampled |->
        [size |-> CountOf(labels, c),
         samples |-> SelectSeq(sampled[c], LAMBDA id : id \in messages)]]

\* a slip: the results dropped once inspected
AnalyzeClearingResults ==
    /\ results' = <<>>
    /\ UNCHANGED <<clusterVars, storeVars, message_ids, suffixTables, loadVars>>

\* analyze_cluster_samples assigns no attribute of self and calls nothing
\* of the store
AnalyzeLeaves ==
    UNCHANGED <<clusterVars, storeVars, message_ids, results, suffixTables,
                loadVars>>

\* analyze_cluster_samples(result_key, samples_per_cluster, output_file);
\* what it returns is a set: {} for None
AnalyzeClusterSamplesCall(result_key, samples_per_cluster, output_file) ==
    LET given == [op |-> "analyze_cluster_samples", key |-> result_key,
                  samples_per_cluster |-> samples_per_cluster]
    IN /\ AnalyzeLeaves
       /\ IF result_key \notin DOMAIN results
          THEN \* "Result not found": return
               lastSave' = given @@ [outcome |-> "returned", ret |-> {},
                                     written |-> {}]
          ELSE \E sampled \in Samplings(results[result_key].labels,
                                        message_ids, samples_per_cluster) :
                 LET cluster_samples ==
                        ClusterSamples(results[result_key].labels, sampled)
                 IN lastSave' = given @@
                        [outcome |-> "returned", ret |-> {cluster_samples},
                         \* if output_file: json.dump(cluster_samples, f)
                         written |-> {cluster_samples : f \in output_file}]

AnalyzeClusterSamples ==
    /\ UNCHANGED <<mainVars, extVars>>
    /\ \E result_key \in ResultKeys, samples_per_cluster \in 0..MaxSamples,
          output_file \in {{}, {"samples.json"}} :
          AnalyzeClusterSamplesCall(result_key, samples_per_cluster, output_file)

\* load_embeddings on collections of 0..MaxRows embeddings
LoadSomeEmbeddings ==
    /\ UNCHANGED <<clusterVars, storeVars, results, suffixTables, messages,
                   mainVars, extVars>>
    /\ \E n \in 0..MaxRows :
          /\ LoadEmbeddingsCall([i \in 1..n |-> 0])
          /\ lastSave' = [op |-> "load_embeddings",
                          outcome |-> IF LoadEmbeddingsRaises([i \in 1..n |-> 0])
                                      THEN "raised" ELSE "returned"]

(***************************************************************************)
(* main(): the command line.  One action per statement of main, in order;  *)
(* an exception no statement catches ends the process with status 1.       *)
(***************************************************************************)
CommandLine(method, k, k_values, save, export_samples) ==
    [method |-> method, min_cluster_size |-> 2, min_samples |-> 1,
     k |-> k, k_values |-> k_values, save |-> save,
     export_samples |-> export_samples]

\* the command lines given (an option left out is {})
CommandLines ==
    {CommandLine("hdbscan", 2, <<2>>, {}, {}),
     CommandLine("hdbscan", 2, <<2>>, {"_a"}, {"samples.json"}),
     CommandLine("kmeans", 1, <<2>>, {}, {}),
     CommandLine("kmeans", 2, <<2>>, {"_a"}, {}),
     CommandLine("compare_kmeans", 2, <<2>>, {}, {"samples.json"}),
     CommandLine("compare_kmeans", 2, <<2, 3>>, {"_b"}, {}),
     CommandLine("umap_hdbscan", 2, <<2>>, {"_b"}, {"samples.json"}),
     CommandLine("all", 2, <<2>>, {"_a"}, {"samples.json"})}

\* f'kmeans_k{k}'
KmeansKeys == <<"kmeans_k1", "kmeans_k2", "kmeans_k3", "kmeans_k4", "kmeans_k5">>

\* fit_predict of HDBSCAN numbers the clusters it finds 0, 1, ...
NumberedLabelings(n, mcs) ==
    {l \in HdbscanLabelings(n, mcs) :
        LabelsOf(l) \ {NOISE} = 0..(NClusters(l) - 1)}

\* an uncaught exception: traceback, exit status 1
Crash(at) ==
    /\ pc' = "done"
    /\ exit' = {[code |-> 1, at |-> at]}

\* cluster_kmeans(k) on the matrix X raises
KmeansCallRaises(X, k, seed) ==
    \/ Len(X) = 0
    \/ Len(X) < k
    \/ KmeansRaises(KmeansFit(X, k, seed))

\* compare_k_values: the first k of k_values at which cluster_kmeans raises
\* (0 if none)
FirstRaising(X, k_values, seed) ==
    LET bad == {i \in DOMAIN k_values : KmeansCallRaises(X, k_values[i], seed)}
    IN IF bad = {} THEN 0 ELSE CHOOSE i \in bad : \A j \in bad : i <= j

RECURSIVE CompareKValues(_, _, _, _, _)
\* compare_k_values: self.results after the first n of k_values
CompareKValues(res, X, k_values, seed, n) ==
    IF n = 0 THEN res
    ELSE (KmeansKeys[k_values[n]] :>
             KmeansResult(k_values[n], KmeansFit(X, k_values[n], seed)))
         @@ CompareKValues(res, X, k_values, seed, n - 1)

\* best_result = list(clusterer.results.keys())[0]: the key main stored first
BestResult ==
    IF "hdbscan" \in DOMAIN results THEN "hdbscan"
    ELSE IF args.method = "kmeans" THEN KmeansKeys[args.k]
    ELSE IF args.method = "compare_kmeans" THEN KmeansKeys[args.k_values[1]]
    ELSE "umap_hdbscan"

\* args = parser.parse_args(); clusterer = MessageClusterer()
MainStart ==
    /\ pc = "start"
    /\ \E a \in CommandLines : args' = a
    /\ message_ids' = <<>>
    /\ embeddings' = <<>>
    /\ messages' = {}
    /\ results' = <<>>
    /\ fitted' = [k \in 1..MaxK |-> <<>>]
    /\ pc' = "load_embeddings"
    /\ UNCHANGED <<clusterVars, storeVars, suffixTables, lastSave, exit>>
    /\ UNCHANGED extVars

\* embeddings, message_ids = clusterer.load_embeddings()
MainLoadEmbeddings ==
    /\ pc = "load_embeddings"
    /\ \E n \in 0..MaxRows :
          LET X == [i \in 1..n |-> i % 2]
          IN /\ LoadEmbeddingsCall(X)
             /\ IF LoadEmbeddingsRaises(X)
                THEN Crash("load_embeddings")
                ELSE pc' = "load_messages" /\ UNCHANGED exit
    /\ UNCHANGED <<clusterVars, storeVars, results, suffixTables, lastSave,
                   messages, args>>
    /\ UNCHANGED extVars

\* messages = clusterer.load_messages(message_ids)
MainLoadMessages ==
    /\ pc = "load_messages"
    /\ LoadMessagesCall(message_ids)
    /\ pc' = "hdbscan"
    /\ UNCHANGED <<clusterVars, storeVars, saveVars, embeddings, fitted, args,
                   exit>>
    /\ UNCHANGED extVars

\* one of the two density methods, its result stored under key
MainDensity(key, parameters, next) ==
    IF Len(embeddings) = 0
    THEN Crash("cluster_" \o key) /\ UNCHANGED results
    ELSE \E labels \in NumberedLabelings(Len(embeddings), args.min_cluster_size) :
            IF DensityRaises(labels)
            THEN Crash("cluster_" \o key) /\ UNCHANGED results
            ELSE /\ results' = (key :> DensityResult(key, parameters, labels))
                                @@ results
                 /\ pc' = next
                 /\ UNCHANGED exit

\* if args.method == 'hdbscan' or args.method == 'all': ...
MainHdbscan ==
    /\ pc = "hdbscan"
    /\ IF args.method \in {"hdbscan", "all"}
       THEN MainDensity("hdbscan",
                [min_cluster_size |-> args.min_cluster_size,
                 min_samples |-> args.min_samples, metric |-> "euclidean"],
                "kmeans")
       ELSE pc' = "kmeans" /\ UNCHANGED <<results, exit>>
    /\ UNCHANGED <<clusterVars, storeVars, message_ids, suffixTables, lastSave,
                   loadVars, args>>
    /\ UNCHANGED extVars

\* if args.method == 'kmeans': ...
MainKmeans ==
    /\ pc = "kmeans"
    /\ IF args.method = "kmeans"
       THEN \E seed \in SeedsOf(RANDOM_STATE) :
              IF KmeansCallRaises(embeddings, args.k, seed)
              THEN Crash("cluster_kmeans") /\ UNCHANGED results
              ELSE /\ results' = CompareKValues(results, embeddings,
                                                <<args.k>>, seed, 1)
                   /\ pc' = "compare_kmeans"
                   /\ UNCHANGED exit
       ELSE pc' = "compare_kmeans" /\ UNCHANGED <<results, exit>>
    /\ UNCHANGED <<clusterVars, storeVars, message_ids, suffixTables, lastSave,
                   loadVars, args>>
    /\ UNCHANGED extVars

\* if args.method == 'compare_kmeans' or args.method == 'all': ...
MainCompare ==
    /\ pc = "compare_kmeans"
    /\ IF args.method \in {"compare_kmeans", "all"}
       THEN \E seed \in SeedsOf(RANDOM_STATE) :
              LET bad == FirstRaising(embeddings, args.k_values, seed)
              IN IF bad # 0
                 THEN /\ results' = CompareKValues(results, embeddings,
                                                   args.k_values, seed, bad - 1)
                      /\ Crash("cluster_kmeans")
                 ELSE /\ results' = CompareKValues(results, embeddings,
                                                   args.k_values, seed,
                                                   Len(args.k_values))
                      /\ pc' = "umap_hdbscan"
                      /\ UNCHANGED exit
       ELSE pc' = "umap_hdbscan" /\ UNCHANGED <<results, exit>>
    /\ UNCHANGED <<clusterVars, storeVars, message_ids, suffixTables, lastSave,
                   loadVars, args>>
    /\ UNCHANGED extVars

\* if args.method == 'umap_hdbscan' or args.method == 'all': ...
MainUmap ==
    /\ pc = "umap_hdbscan"
    /\ IF args.method \in {"umap_hdbscan", "all"}
       THEN MainDensity("umap_hdbscan",
                [n_components |-> 50,
                 min_cluster_size |-> args.min_cluster_size,
                 min_samples |-> args.min_samples],
                "export")
       ELSE pc' = "export" /\ UNCHANGED <<results, exit>>
    /\ UNCHANGED <<clusterVars, storeVars, message_ids, suffixTables, lastSave,
                   loadVars, args>>
    /\ UNCHANGED extVars

\* if args.export_samples and clusterer.results: analyze_cluster_samples(
\*     best_result, samples_per_cluster=10, output_file=args.export_samples)
MainExport ==
    /\ pc = "export"
    /\ IF args.export_samples # {} /\ DOMAIN results # {}
       THEN AnalyzeClusterSamplesCall(BestResult, 10, args.export_samples)
       ELSE AnalyzeLeaves /\ UNCHANGED lastSave
    /\ pc' = "save"
    /\ UNCHANGED <<args, exit>>
    /\ UNCHANGED extVars

\* if args.save and clusterer.results: save_clustering_to_db(best_result, ...)
MainSave ==
    /\ pc = "save"
    /\ IF args.save # {} /\ DOMAIN results # {}
       THEN \E table_suffix \in args.save :
               SaveClusteringToDbCall(BestResult, table_suffix)
       ELSE UNCHANGED <<clusterVars, storeVars, saveVars>>
    /\ pc' = "close"
    /\ UNCHANGED <<loadVars, args, exit>>
    /\ UNCHANGED extVars

\* clusterer.db.close(); the process ends
MainClose ==
    /\ pc = "close"
    /\ db' = disk
    /\ latest' = latestDisk
    /\ last' = [op |-> "close"]
    /\ pc' = "done"
    /\ exit' = {[code |-> 0, at |-> "end"]}
    /\ UNCHANGED <<clusterVars, disk, latestDisk, issued, created, saveVars,
                   loadVars, args>>
    /\ UNCHANGED extVars

MainNext ==
    \/ MainStart
    \/ MainLoadEmbeddings
    \/ MainLoadMessages
    \/ MainHdbscan
    \/ MainKmeans
    \/ MainCompare
    \/ MainUmap
    \/ MainExport
    \/ MainSave
    \/ MainClose

(***************************************************************************)
(* DiscordScraper._make_request(endpoint, params, max_retries)             *)
(*                                                                         *)
(* What the server does with the i-th request of a call is responses[i]:   *)
(* a status code, a 429 whose body is not JSON (response.json() then       *)
(* raises requests.JSONDecodeError, a RequestException, inside the try),   *)
(* or a RequestException raised by requests.get.                           *)
(***************************************************************************)
MaxRetries == 3     \* largest max_retries given to _make_request
MaxApiCalls == 4    \* cap on stats['api_calls']

Responses == {"200", "429", "429_not_json", "401", "404", "500",
              "RequestException"}

RECURSIVE MakeRequestRetryingUnauthorized(_, _, _)
\* a slip: 401 and 404 retried like any other error
MakeRequestRetryingUnauthorized(responses, attempt, max_retries) ==
    IF attempt >= max_retries
    THEN [made |-> 0, ret |-> {}]
    ELSE IF responses[attempt + 1] = "200"
    THEN [made |-> 1, ret |-> {responses[attempt + 1]}]
    ELSE [MakeRequestRetryingUnauthorized(responses, attempt + 1, max_retries)
             EXCEPT !.made = @ + 1]

RECURSIVE MakeRequestFrom(_, _, _)
\* for attempt in range(max_retries): ... ; return None.  made is the number
\* of requests.get calls from this attempt on, ret the value returned ({} for
\* None).  200 returns the response; 401 and 404 return None; 429, any other
\* status and RequestException go on to the next attempt.
MakeRequestFrom(responses, attempt, max_retries) ==
    IF attempt >= max_retries
    THEN [made |-> 0, ret |-> {}]
    ELSE IF responses[attempt + 1] = "200"
    THEN [made |-> 1, ret |-> {responses[attempt + 1]}]
    ELSE IF responses[attempt + 1] \in {"401", "404"}
    THEN [made |-> 1, ret |-> {}]
    ELSE [MakeRequestFrom(responses, attempt + 1, max_retries)
             EXCEPT !.made = @ + 1]

\* _make_request: self.stats['api_calls'] += 1 before each requests.get
MakeRequestCall(responses, max_retries) ==
    LET r == MakeRequestFrom(responses, 0, max_retries)
    IN request' = [op |-> "_make_request", max_retries |-> max_retries,
                   responses |-> responses, made |-> r.made, ret |-> r.ret,
                   before |-> request.api_calls,
                   api_calls |-> request.api_calls + r.made]

MakeRequest ==
    /\ \E max_retries \in 0..MaxRetries :
         /\ request.api_calls + max_retries <= MaxApiCalls
         /\ \E responses \in [1..max_retries -> Responses] :
                MakeRequestCall(responses, max_retries)
    /\ UNCHANGED <<clusterVars, storeVars, saveVars, loadVars, mainVars,
                   userVars, channel, checkpointFile, scraper, embedVars>>

(***************************************************************************)
(* DiscreditDB: users and embeddings_reference.  Every operation on them   *)
(* commits, which also makes durable whatever the connection had pending.  *)
(***************************************************************************)
UserInit ==
    /\ users = <<>>
    /\ embeddings_reference = <<>>
    /\ referenced = {}

\* the NOT NULL and CHECK constraints of a users row
UserConstraints(platform, username) ==
    /\ platform \in Platforms
    /\ username # None

\* insert_user: INSERT with message_count 0, commit, True; IntegrityError is
\* answered with False
InsertUserCall(id, platform, username) ==
    LET answer(ret) == [op |-> "insert_user", ret |-> ret, id |-> id,
                        existed |-> id \in DOMAIN users]
    IN IF id \in DOMAIN users \/ ~UserConstraints(platform, username)
       THEN /\ last' = answer(FALSE)
            /\ UNCHANGED <<users, disk, latestDisk>>
       ELSE /\ users' = (id :> [platform |-> platform, username |-> username,
                                message_count |-> 0]) @@ users
            /\ disk' = db
            /\ latestDisk' = latest
            /\ last' = answer(TRUE)

\* insert_embedding_reference: message_id is NOT NULL UNIQUE, chromadb_id is
\* NOT NULL; INSERT, commit, True; IntegrityError is answered with False
InsertEmbeddingReferenceCall(message_id, chromadb_id) ==
    LET answer(ret) == [op |-> "insert_embedding_reference", ret |-> ret,
                        id |-> message_id,
                        existed |-> message_id \in DOMAIN embeddings_reference]
    IN IF \/ message_id \in DOMAIN embeddings_reference
          \/ message_id = None
          \/ chromadb_id = None
       THEN /\ last' = answer(FALSE)
            /\ UNCHANGED <<embeddings_reference, referenced, disk, latestDisk>>
       ELSE /\ embeddings_reference' = (message_id :> chromadb_id)
                                        @@ embeddings_reference
            /\ referenced' = referenced \cup {message_id}
            /\ disk' = db
            /\ latestDisk' = latest
            /\ last' = answer(TRUE)

\* upsert_user on the users table u: INSERT ... ON CONFLICT(id) DO UPDATE SET
\* username, display_name, last_seen, metadata (message_count is kept)
UpsertUser(u, id, platform, username) ==
    IF id \in DOMAIN u
    THEN [u EXCEPT ![id].username = username]
    ELSE (id :> [platform |-> platform, username |-> username,
                 message_count |-> 0]) @@ u

\* increment_user_message_count on the users table u: UPDATE users SET
\* message_count = message_count + 1 ... WHERE id = ?   (no row, no change)
IncrementUserMessageCount(u, user_id) ==
    IF user_id \in DOMAIN u
    THEN [u EXCEPT ![user_id].message_count = @ + 1]
    ELSE u

MaxMinLength == 3   \* largest min_length given

Contents == {"", "hi", "hello"}

\* a slip: LENGTH(m.content) > ? in the WHERE clause
WithoutEmbeddingIdsStrict(t, refs, min_length) ==
    {m \in DOMAIN t :
        m \notin DOMAIN refs /\ Len(t[m].content) > min_length}

\* SELECT m.* FROM messages m LEFT JOIN embeddings_reference e
\* ON m.id = e.message_id WHERE e.id IS NULL AND LENGTH(m.content) >= ?
\* (the ids selected; t is the messages table, refs embeddings_reference)
WithoutEmbeddingIds(t, refs, min_length) ==
    {m \in DOMAIN t :
        m \notin DOMAIN refs /\ Len(t[m].content) >= min_length}

RECURSIVE OrderByTimestampAsc(_, _)
\* ORDER BY m.timestamp ASC (rows of equal timestamp in an order SQL does
\* not fix)
OrderByTimestampAsc(t, ids) ==
    IF ids = {} THEN <<>>
    ELSE LET m == CHOOSE x \in ids :
                     \A o \in ids : t[x].timestamp <= t[o].timestamp
         IN <<[id |-> m, timestamp |-> t[m].timestamp,
               content |-> t[m].content]>>
            \o OrderByTimestampAsc(t, ids \ {m})

\* get_messages_without_embeddings(min_length): the rows it returns
GetMessagesWithoutEmbeddings(t, refs, min_length) ==
    OrderByTimestampAsc(t, WithoutEmbeddingIds(t, refs, min_length))

\* insert_message with any arguments
InsertMessageRow ==
    /\ \E id \in OrderMsgIds, platform \in {"discord", "twitter"},
          content \in Contents \cup {None}, ts \in Timestamps :
          InsertMessageRowCall(id, platform, content, "u1", ts)
    /\ UNCHANGED <<clusterVars, saveVars, loadVars, mainVars, extVars>>

\* insert_user with any arguments
InsertUser ==
    /\ \E id \in {"u1", "u2"}, platform \in {"reddit", "twitter"},
          username \in {"ann", None} :
          InsertUserCall(id, platform, username)
    /\ UNCHANGED <<clusterVars, db, latest, issued, created, saveVars,
                   loadVars, mainVars, embeddings_reference, referenced,
                   scraperVars, embedVars>>

\* insert_embedding_reference with any arguments
InsertEmbeddingReference ==
    /\ \E message_id \in OrderMsgIds \cup {None}, chromadb_id \in {"v1", None} :
          InsertEmbeddingReferenceCall(message_id, chromadb_id)
    /\ UNCHANGED <<clusterVars, db, latest, issued, created, saveVars,
                   loadVars, mainVars, users, scraperVars, embedVars>>

(***************************************************************************)
(* Scrapers: _save_batch (Discord and Reddit)                              *)
(***************************************************************************)
RECURSIVE SaveMessages(_, _, _)
\* for msg in messages: inserted = self.db.insert_message(...); if inserted:
\* self.db.increment_user_message_count(msg['author_id'], ...)
\* on the messages table t and the users table u; saved counts the inserts
SaveMessages(t, u, batch) ==
    IF batch = <<>>
    THEN [messages |-> t, users |-> u, saved |-> 0]
    ELSE LET msg == Head(batch)
             inserted == MessageInserts(t, msg.message_id, msg.platform,
                                        msg.content, msg.author_id)
             rest == IF inserted
                     THEN SaveMessages(
                              (msg.message_id :>
                                  MessageRow(msg.platform, msg.content,
                                             msg.author_id, msg.timestamp)) @@ t,
                              IncrementUserMessageCount(u, msg.author_id),
                              Tail(batch))
                     ELSE SaveMessages(t, u, Tail(batch))
         IN [rest EXCEPT !.saved = @ + (IF inserted THEN 1 ELSE 0)]

RECURSIVE UpsertUsers(_, _)
\* for user_id, user_data in users_dict.items(): self.db.upsert_user(...)
\* (users_dict as the set of its values)
UpsertUsers(u, users_dict) ==
    IF users_dict = {} THEN u
    ELSE LET d == CHOOSE x \in users_dict : TRUE
         IN UpsertUsers(UpsertUser(u, d.user_id, d.platform, d.username),
                        users_dict \ {d})

\* _save_batch of either scraper: the messages, then the users, then commit.
\* (RedditScraper passes posts and comments; batch is posts followed by
\* comments.)
SaveBatch(t, u, batch, users_dict) ==
    [SaveMessages(t, u, batch) EXCEPT !.users = UpsertUsers(@, users_dict)]

\* DiscordScraper._save_batch: if not messages: return
DiscordSaveBatch(t, u, batch, users_dict) ==
    IF batch = <<>>
    THEN [messages |-> t, users |-> u, saved |-> 0]
    ELSE SaveBatch(t, u, batch, users_dict)

\* _save_batch on the store: the tables after it, committed
SaveBatchCall(after, op) ==
    /\ db' = [db EXCEPT !.messages = after.messages]
    /\ users' = after.users
    /\ disk' = db'
    /\ latestDisk' = latest
    /\ last' = [op |-> op, saved |-> after.saved]
    /\ UNCHANGED <<latest, issued, created, embeddings_reference, referenced>>

\* a parsed message as the scrapers build it: the ids prefixed with the
\* platform (f"discord_{...}", f"reddit_{...}")
ParsedMessage(platform, n, author, content) ==
    [message_id |-> platform \o "_" \o ToString(n),
     raw_id |-> n,
     platform |-> platform,
     content |-> content,
     author_id |-> platform \o "_" \o author,
     author_name |-> author,
     timestamp |-> n]

\* the author of the n-th message of a channel or subreddit
AuthorOf(n) == IF n % 2 = 1 THEN "a" ELSE "b"

\* users_dict[user_id] = {'user_id': ..., 'platform': ..., 'username': ...}
TrackedUser(msg) ==
    [user_id |-> msg.author_id, platform |-> msg.platform,
     username |-> msg.author_name]

\* the users tracked for the messages of a buffer
TrackedUsers(buffer) == {TrackedUser(buffer[i]) : i \in DOMAIN buffer}

\* the messages a scraper may hold in its buffer
BatchPool(platform) ==
    {ParsedMessage(platform, n, AuthorOf(n), "hello") : n \in 1..MaxRows}

\* DiscordScraper._save_batch(messages, users_dict): users_dict holds at
\* least the authors of the buffered messages
DiscordScraperSaveBatch ==
    /\ \E batch \in SeqsUpTo(BatchPool("discord"), MaxLen),
          earlier \in SUBSET BatchPool("discord") :
            SaveBatchCall(
                DiscordSaveBatch(db.messages, users, batch,
                    TrackedUsers(batch) \cup {TrackedUser(m) : m \in earlier}),
                "discord._save_batch")
    /\ UNCHANGED <<clusterVars, saveVars, loadVars, mainVars, scraperVars,
                   embedVars>>

\* RedditScraper._save_batch(posts, comments, users_dict)
RedditScraperSaveBatch ==
    /\ \E posts \in SeqsUpTo(BatchPool("reddit"), 1),
          comments \in SeqsUpTo(BatchPool("reddit"), 1),
          earlier \in SUBSET BatchPool("reddit") :
            SaveBatchCall(
                SaveBatch(db.messages, users, posts \o comments,
                    TrackedUsers(posts \o comments)
                        \cup {TrackedUser(m) : m \in earlier}),
                "reddit._save_batch")
    /\ UNCHANGED <<clusterVars, saveVars, loadVars, mainVars, scraperVars,
                   embedVars>>

(***************************************************************************)
(* DiscordScraper.scrape_messages(months_back, batch_size,                 *)
(* checkpoint_interval)                                                    *)
(*                                                                         *)
(* The channel is the list of its messages, newest first; a message's id   *)
(* and its time grow together (snowflake ids).  One action is one pass of  *)
(* the while loop, with the code that follows the loop when the pass ends  *)
(* it.  The cutoff is the time below which a message is too old.           *)
(***************************************************************************)
MaxHistory == 4     \* most messages the channel holds
MaxBatch == 2       \* largest batch_size given
MaxInterval == 2    \* largest checkpoint_interval given
MaxScrapes == 2     \* most runs of scrape_messages

DEFAULT_MAX_RETRIES == 5

Cutoffs == {0, 2}

\* what the server answers to the requests of one pass
ScrapeResponses ==
    {<<"200", "200", "200", "200", "200">>,
     <<"500", "RequestException", "429", "500", "500">>}

NoCheckpoint == [last_message_id |-> {}, messages_saved |-> 0]

NoScraper ==
    [pc |-> "none", runs |-> 0, checkpoint |-> NoCheckpoint, before_id |-> {},
     total_messages |-> 0, messages_buffer |-> <<>>, users_dict |-> {},
     cutoff |-> 0, batch_size |-> 1, checkpoint_interval |-> 1,
     messages_scraped |-> 0, fetched |-> {}, passed |-> {}, wrote |-> FALSE]

ScraperInit ==
    /\ request = [op |-> "none", api_calls |-> 0]
    /\ channel = <<>>
    /\ checkpointFile = {}
    /\ scraper = NoScraper

\* somebody posts to the channel: a message, or something _parse_message
\* answers None for (a bot's message, an empty one, one it fails to parse)
Post ==
    /\ Len(channel) < MaxHistory
    /\ \E kind \in {"message", "skipped"} :
          channel' = <<[id |-> Len(channel) + 1, kind |-> kind]>> \o channel
    /\ UNCHANGED <<clusterVars, storeVars, saveVars, loadVars, mainVars,
                   userVars, request, checkpointFile, scraper, embedVars>>

\* _parse_message(msg_data): the parsed message, {} for None
ParseMessage(msg_data) ==
    IF msg_data.kind = "message"
    THEN {ParsedMessage("discord", msg_data.id, AuthorOf(msg_data.id), "hello")}
    ELSE {}

\* GET /channels/{id}/messages?limit=batch_size[&before=before_id]
Page(before_id, batch_size) ==
    LET older == SelectSeq(channel,
                     LAMBDA m : \A b \in before_id : m.id < b)
    IN SubSeq(older, 1, Min2(batch_size, Len(older)))

\* _load_checkpoint: the file's content, or the default
LoadCheckpoint ==
    IF checkpointFile = {} THEN NoCheckpoint
    ELSE CHOOSE c \in checkpointFile : TRUE

RECURSIVE TakeUntilCutoff(_, _)
\* for msg_data in messages: parse, skip None, stop at the first parsed
\* message older than the cutoff, else append to the buffer
TakeUntilCutoff(page, cutoff) ==
    IF page = <<>> THEN [taken |-> <<>>, reached |-> FALSE]
    ELSE IF ParseMessage(Head(page)) = {}
    THEN TakeUntilCutoff(Tail(page), cutoff)
    ELSE LET parsed == CHOOSE x \in ParseMessage(Head(page)) : TRUE
         IN IF parsed.timestamp < cutoff
            THEN [taken |-> <<>>, reached |-> TRUE]
            ELSE [TakeUntilCutoff(Tail(page), cutoff)
                     EXCEPT !.taken = <<parsed>> \o @]

\* if total_messages % checkpoint_interval == 0 and messages_buffer:
\* (the test on the buffer is made where this is used)
CheckpointDue(total_messages, checkpoint_interval) ==
    total_messages % checkpoint_interval = 0

\* a slip: the checkpoint written without the buffer being saved
BufferToSaveNever(buffer) == <<>>

\* the buffer handed to _save_batch before a checkpoint is written
BufferToSave(buffer) == buffer

\* DiscordScraper(...) and scrape_messages up to the loop
ScrapeStart ==
    /\ scraper.pc # "scraping"
    /\ scraper.runs < MaxScrapes
    /\ \E batch_size \in 1..MaxBatch, checkpoint_interval \in 1..MaxInterval,
          cutoff \in Cutoffs :
          scraper' = [NoScraper EXCEPT
                        !.pc = "scraping",
                        !.runs = scraper.runs + 1,
                        !.checkpoint = LoadCheckpoint,
                        !.before_id = LoadCheckpoint.last_message_id,
                        !.cutoff = cutoff,
                        !.batch_size = batch_size,
                        !.checkpoint_interval = checkpoint_interval]
    /\ request' = [op |-> "none", api_calls |-> 0]
    /\ UNCHANGED <<clusterVars, storeVars, saveVars, loadVars, mainVars,
                   userVars, channel, checkpointFile, embedVars>>

\* one pass of the while loop
ScrapePass ==
    /\ scraper.pc = "scraping"
    /\ \E responses \in ScrapeResponses :
        LET response == MakeRequestFrom(responses, 0, DEFAULT_MAX_RETRIES).ret
            page == IF response = {} THEN <<>>
                        ELSE Page(scraper.before_id, scraper.batch_size)
            t == TakeUntilCutoff(page, scraper.cutoff)
            buffer == scraper.messages_buffer \o t.taken
            users_dict == scraper.users_dict \cup TrackedUsers(t.taken)
            total == scraper.total_messages + Len(t.taken)
            ends == page = <<>> \/ t.reached
            checkpoints ==
                /\ ~ends
                /\ CheckpointDue(total, scraper.checkpoint_interval)
                /\ buffer # <<>>
            saved == IF ends \/ checkpoints THEN BufferToSave(buffer) ELSE <<>>
            after == DiscordSaveBatch(db.messages, users, saved, users_dict)
            scraped == scraper.messages_scraped + after.saved
            last_message_id ==
                IF ends THEN scraper.checkpoint.last_message_id
                ELSE {page[Len(page)].id}
        IN /\ MakeRequestCall(responses, DEFAULT_MAX_RETRIES)
           /\ IF saved # <<>>
              THEN SaveBatchCall(after, "discord._save_batch")
              ELSE UNCHANGED <<storeVars, userVars>>
           /\ checkpointFile' =
                IF ends
                THEN {[last_message_id |-> scraper.checkpoint.last_message_id,
                       messages_saved |-> scraped]}
                ELSE IF checkpoints
                THEN {[last_message_id |-> scraper.checkpoint.last_message_id,
                       messages_saved |-> total]}
                ELSE checkpointFile
           /\ scraper' = [scraper EXCEPT
                !.pc = IF ends THEN "finished" ELSE "scraping",
                !.checkpoint =
                    [last_message_id |-> last_message_id,
                     messages_saved |-> IF ends THEN scraped
                                        ELSE IF checkpoints THEN total
                                        ELSE @.messages_saved],
                !.before_id = IF ends THEN @ ELSE last_message_id,
                !.total_messages = IF ends THEN @ ELSE total,
                !.messages_buffer = IF ends \/ checkpoints THEN <<>> ELSE buffer,
                !.users_dict = users_dict,
                !.messages_scraped = scraped,
                !.fetched = @ \cup {t.taken[i].raw_id : i \in DOMAIN t.taken},
                !.passed = @ \cup {saved[i].raw_id : i \in DOMAIN saved},
                !.wrote = ends \/ checkpoints]
    /\ UNCHANGED <<clusterVars, saveVars, loadVars, mainVars, channel,
                   embedVars>>

\* the process is stopped in the loop: what was buffered is lost
ScrapeInterrupted ==
    /\ scraper.pc = "scraping"
    /\ scraper' = [scraper EXCEPT !.pc = "stopped", !.wrote = FALSE]
    /\ UNCHANGED <<clusterVars, storeVars, saveVars, loadVars, mainVars,
                   userVars, request, channel, checkpointFile, embedVars>>

(***************************************************************************)
(* VectorStore._embed_batch(texts, retry, max_retries)                     *)
(*                                                                         *)
(* What the i-th embeddings.create call of a batch does is outcomes[i]: it *)
(* answers ("ok"), raises openai.RateLimitError, raises another            *)
(* openai.APIError, or raises an exception neither handler catches.        *)
(***************************************************************************)
ApiOutcomes == {"ok", "RateLimitError", "APIError", "Other"}

RECURSIVE EmbedBatchRetryingAlways(_, _, _, _)
\* a slip: the retry flag not looked at
EmbedBatchRetryingAlways(outcomes, attempt, retry, max_retries) ==
    IF attempt >= max_retries
    THEN [calls |-> 0, result |-> "raised", error |-> "Exception"]
    ELSE IF outcomes[attempt + 1] = "ok"
    THEN [calls |-> 1, result |-> "returned", error |-> "none"]
    ELSE IF outcomes[attempt + 1] = "Other" \/ attempt = max_retries - 1
    THEN [calls |-> 1, result |-> "raised", error |-> outcomes[attempt + 1]]
    ELSE [EmbedBatchRetryingAlways(outcomes, attempt + 1, retry, max_retries)
             EXCEPT !.calls = @ + 1]

RECURSIVE EmbedBatchFrom(_, _, _, _)
\* for attempt in range(max_retries): try: ... return embeddings
\* except RateLimitError / APIError: if not retry or attempt == max_retries - 1:
\* raise; sleep.  After the loop: raise Exception(...).
\* calls is the number of API calls from this attempt on.
EmbedBatchFrom(outcomes, attempt, retry, max_retries) ==
    IF attempt >= max_retries
    THEN [calls |-> 0, result |-> "raised", error |-> "Exception"]
    ELSE IF outcomes[attempt + 1] = "ok"
    THEN [calls |-> 1, result |-> "returned", error |-> "none"]
    ELSE IF \/ outcomes[attempt + 1] = "Other"
            \/ ~retry
            \/ attempt = max_retries - 1
    THEN [calls |-> 1, result |-> "raised", error |-> outcomes[attempt + 1]]
    ELSE [EmbedBatchFrom(outcomes, attempt + 1, retry, max_retries)
             EXCEPT !.calls = @ + 1]

\* _embed_batch(texts, retry, max_retries)
EmbedBatch ==
    /\ \E retry \in BOOLEAN, max_retries \in 0..MaxRetries :
         \E outcomes \in [1..max_retries -> ApiOutcomes] :
            LET r == EmbedBatchFrom(outcomes, 0, retry, max_retries)
            IN embedCall' = [op |-> "_embed_batch", retry |-> retry,
                             max_retries |-> max_retries,
                             outcomes |-> outcomes, calls |-> r.calls,
                             result |-> r.result, error |-> r.error]
    /\ UNCHANGED <<clusterVars, storeVars, saveVars, loadVars, mainVars,
                   userVars, scraperVars, collection, embedder>>

(***************************************************************************)
(* VectorStore.add_messages_batch and MessageEmbedder.embed_messages       *)
(*                                                                         *)
(* collection is the set of ids held by the ChromaDB collection.  What     *)
(* happens to one batch is a record: api, the outcomes of the API calls of *)
(* its _embed_batch, and add, whether collection.add succeeds.             *)
(***************************************************************************)
DefaultEmbedRetries == 3

BatchOutcomes ==
    {[api |-> <<"ok", "ok", "ok">>, add |-> TRUE],
     [api |-> <<"RateLimitError", "APIError", "ok">>, add |-> TRUE],
     [api |-> <<"ok", "ok", "ok">>, add |-> FALSE],
     [api |-> <<"RateLimitError", "APIError", "APIError">>, add |-> TRUE],
     [api |-> <<"Other", "ok", "ok">>, add |-> TRUE]}

\* [msg['id'] for msg in messages]
MessageIdsOf(batch) == {batch[i].id : i \in 1..Len(batch)}

\* a slip: the batch counted as soon as its embeddings were generated
AddMessagesBatchCountingEmbedded(batch, fate) ==
    IF batch = <<>>
    THEN [success_count |-> 0, error_count |-> 0, stored |-> FALSE]
    ELSE LET r == EmbedBatchFrom(fate.api, 0, TRUE, DefaultEmbedRetries)
         IN IF r.result = "returned"
            THEN [success_count |-> Len(batch), error_count |-> 0,
                  stored |-> fate.add]
            ELSE [success_count |-> 0, error_count |-> Len(batch),
                  stored |-> FALSE]

\* add_messages_batch(messages, batch_size) for a batch of at most batch_size
\* messages (embed_texts then makes one _embed_batch call, retry on, default
\* max_retries): try: embed_texts; add_embeddings; return len(messages), 0
\* except Exception: return 0, len(messages).  stored tells whether
\* collection.add took the batch.
AddMessagesBatch(batch, fate) ==
    IF batch = <<>>
    THEN [success_count |-> 0, error_count |-> 0, stored |-> FALSE]
    ELSE LET r == EmbedBatchFrom(fate.api, 0, TRUE, DefaultEmbedRetries)
         IN IF r.result = "returned" /\ fate.add
            THEN [success_count |-> Len(batch), error_count |-> 0,
                  stored |-> TRUE]
            ELSE [success_count |-> 0, error_count |-> Len(batch),
                  stored |-> FALSE]

RECURSIVE InsertEmbeddingReferences(_, _, _)
\* for msg in batch: self.db.insert_embedding_reference(message_id=msg['id'],
\* chromadb_id=msg['id'], ...), from message i on; acc holds the
\* embeddings_reference table, the messages that got a row and the answer of
\* the latest call
InsertEmbeddingReferences(acc, batch, i) ==
    IF i > Len(batch) THEN acc
    ELSE LET id == batch[i].id
             existed == id \in DOMAIN acc.refs
             answer == [op |-> "insert_embedding_reference",
                        ret |-> ~existed, id |-> id, existed |-> existed]
         IN InsertEmbeddingReferences(
               [acc EXCEPT !.refs = IF existed THEN @ ELSE (id :> id) @@ @,
                           !.rows = IF existed THEN @ ELSE @ \cup {id},
                           !.last = answer],
               batch, i + 1)

RECURSIVE EmbedBatches(_, _, _, _, _)
\* for batch_idx in range(0, len(messages), self.batch_size): ... ; acc also
\* holds the collection, the two counters and the messages whose batch the
\* collection took
EmbedBatches(acc, msgs, batch_size, outcomes, batch_idx) ==
    IF batch_idx >= Len(msgs) THEN acc
    ELSE LET upto == IF batch_idx + batch_size < Len(msgs)
                     THEN batch_idx + batch_size ELSE Len(msgs)
             batch == SubSeq(msgs, batch_idx + 1, upto)
             batch_num == (batch_idx \div batch_size) + 1
             r == AddMessagesBatch(batch, outcomes[batch_num])
             linked == IF r.success_count > 0
                       THEN InsertEmbeddingReferences(acc, batch, 1)
                       ELSE acc
         IN EmbedBatches(
               [linked EXCEPT
                   !.collection = IF r.stored THEN @ \cup MessageIdsOf(batch)
                                  ELSE @,
                   !.stored = IF r.stored THEN @ \cup MessageIdsOf(batch)
                              ELSE @,
                   !.embedded_successfully = @ + r.success_count,
                   !.embedding_errors = @ + r.error_count],
               msgs, batch_size, outcomes, batch_idx + batch_size)

\* total_batches = (len(messages) + self.batch_size - 1) // self.batch_size
TotalBatches(n, batch_size) == (n + batch_size - 1) \div batch_size

\* the stats of a new MessageEmbedder
NewStats ==
    [refs |-> embeddings_reference, rows |-> {}, last |-> last,
     collection |-> collection, stored |-> {},
     embedded_successfully |-> 0, embedding_errors |-> 0]

\* the record kept of a run: what embed_messages was given and what it did
EmbedderAfter(op, msgs, batch_size, mode, acc) ==
    [op |-> op, given |-> msgs, batch_size |-> batch_size, mode |-> mode,
     rows |-> acc.rows, stored |-> acc.stored,
     embedded_successfully |-> acc.embedded_successfully,
     embedding_errors |-> acc.embedding_errors]

\* the messages filter_messages keeps, in their order
FilterMessages(msgs, keep) ==
    LET kept(m) == m.id \in keep IN SelectSeq(msgs, kept)

\* MessageEmbedder(batch_size, min_content_length).run(dry_run):
\* get_messages_to_embed; nothing to embed, return; embed_messages, which
\* returns the stats untouched in a dry run and when the user does not
\* confirm the cost, and otherwise works through the batches
EmbedderRun ==
    /\ \E batch_size \in 1..MaxBatch, min_length \in {MaxMinLength},
          mode \in {"embed", "dry_run", "cancelled"},
          keep \in SUBSET (DOMAIN db.messages) :
          LET msgs ==
                  FilterMessages(
                      GetMessagesWithoutEmbeddings(db.messages,
                          embeddings_reference, min_length), keep)
          IN IF msgs = <<>> \/ mode # "embed"
             THEN /\ embedder' = EmbedderAfter(
                         IF msgs = <<>> THEN "run" ELSE "embed_messages",
                         msgs, batch_size, mode, NewStats)
                  /\ UNCHANGED <<embeddings_reference, referenced, collection,
                                 last, disk, latestDisk>>
             ELSE \E outcomes \in
                        [1..TotalBatches(Len(msgs), batch_size)
                            -> BatchOutcomes] :
                     \E acc \in {EmbedBatches(NewStats, msgs, batch_size,
                                               outcomes, 0)} :
                        /\ embedder' = EmbedderAfter("embed_messages",
                               msgs, batch_size, mode, acc)
                        /\ embeddings_reference' = acc.refs
                        /\ referenced' = referenced \cup acc.rows
                        /\ collection' = acc.collection
                        /\ last' = acc.last
                        /\ IF acc.rows = {}
                           THEN UNCHANGED <<disk, latestDisk>>
                           ELSE disk' = db /\ latestDisk' = latest
    /\ UNCHANGED <<clusterVars, db, latest, issued, created, saveVars,
                   loadVars, mainVars, users, scraperVars, embedCall>>

EmbedInit ==
    /\ embedCall = [op |-> "none"]
    /\ collection = {}
    /\ embedder = [op |-> "none"]

\* the state after construction (and load_embeddings), the schema initialised
Init ==
    /\ ClusterInit /\ StoreInit /\ SaveInit /\ LoadInit /\ MainInit
    /\ UserInit /\ ScraperInit /\ EmbedInit

SaveDbNext == RunHdbscan \/ RunUmapHdbscan \/ SaveClusteringToDb

(***************************************************************************)
(* Inputs.  A well-typed call passes message ids that are strings; an      *)
(* ill-typed one may pass None where an id is expected.                    *)
(***************************************************************************)
IdLists == SeqsUpTo(MsgIds, MaxLen)
IdListsUntyped == SeqsUpTo(MsgIds \cup {None}, MaxLen)
LabelLists == SeqsUpTo(StoreLabels, MaxLen)

InsertMessage ==
    /\ UNCHANGED <<clusterVars, saveVars, loadVars, mainVars, extVars>>
    /\ \E id \in MsgIds : InsertMessageCall(id, 1)

SaveClusteringRun ==
    /\ UNCHANGED <<clusterVars, saveVars, loadVars, mainVars, extVars>>
    /\ \E input \in RunInputs : SaveClusteringRunCall(input)

SaveOneKindOfRun ==
    /\ UNCHANGED <<clusterVars, saveVars, loadVars, mainVars, extVars>>
    /\ \E input \in {r \in RunInputs : r.method = "hdbscan"} :
           SaveClusteringRunCall(input)

SaveClusterAssignments ==
    /\ UNCHANGED <<clusterVars, saveVars, loadVars, mainVars, extVars>>
    /\ \E run \in AssignRuns, msg_ids \in IdLists, cluster_labels \in LabelLists :
           SaveClusterAssignmentsCall(run, msg_ids, cluster_labels)

SaveClusterAssignmentsUntyped ==
    /\ UNCHANGED <<clusterVars, saveVars, loadVars, mainVars, extVars>>
    /\ \E msg_ids \in IdListsUntyped, cluster_labels \in LabelLists :
           SaveClusterAssignmentsCall(1, msg_ids, cluster_labels)

DeleteRun ==
    /\ UNCHANGED <<clusterVars, saveVars, loadVars, mainVars, extVars>>
    /\ \E id \in 1..MaxRuns : DeleteRunCall(id)

\* messages of any timestamp, inserted in any order
InsertMessageAnyTime ==
    /\ UNCHANGED <<clusterVars, saveVars, loadVars, mainVars, extVars>>
    /\ \E id \in OrderMsgIds, ts \in Timestamps : InsertMessageCall(id, ts)

SaveAssignmentsOfOneRun ==
    /\ UNCHANGED <<clusterVars, saveVars, loadVars, mainVars, extVars>>
    /\ \E msg_ids \in SeqsUpTo(OrderMsgIds, MaxLen), cluster_labels \in LabelLists :
           SaveClusterAssignmentsCall(1, msg_ids, cluster_labels)

\* runs and their assignments
StoreNext == SaveOneKindOfRun \/ SaveClusterAssignments

SpecStore == Init /\ [][StoreNext]_vars

\* messages and the assignments that name them
MessagesNext == InsertMessage \/ SaveClusterAssignments

SpecMessages == Init /\ [][MessagesNext]_vars

\* run records created and deleted
RunsNext == SaveClusteringRun \/ DeleteRun

SpecRuns == Init /\ [][RunsNext]_vars

\* the connection's transaction: saves that may fail at a row, later commits,
\* and the connection closed and opened again
TxnNext == SaveClusterAssignmentsUntyped \/ SaveOneKindOfRun \/ CloseAndReopen

SpecTxn == Init /\ [][TxnNext]_vars

\* run records written and read back
RunRecordsNext == SaveClusteringRun

SpecRunRecords == Init /\ [][RunRecordsNext]_vars

\* cluster_kmeans called again and again on the matrices loaded
KmeansNext == LoadEmbeddings \/ ClusterKmeansOnMatrix

SpecKmeans == Init /\ [][KmeansNext]_vars

\* results in memory inspected with analyze_cluster_samples
InspectNext ==
    \/ LoadSomeEmbeddings
    \/ InsertMessage
    \/ LoadMessages
    \/ RunHdbscan
    \/ AnalyzeClusterSamples

SpecInspect == Init /\ [][InspectNext]_vars

\* calls of _make_request, whatever the server answers
RequestNext == MakeRequest

SpecRequest == Init /\ [][RequestNext]_vars

\* batches saved by the two scrapers into one database
UsersNext == DiscordScraperSaveBatch \/ RedditScraperSaveBatch

SpecUsers == Init /\ [][UsersNext]_vars

\* a channel people post to, scraped in one or more runs
ScrapeNext == Post \/ ScrapeStart \/ ScrapePass \/ ScrapeInterrupted

SpecScrape == Init /\ [][ScrapeNext]_vars

\* the three insert operations that answer True or False
InsertsNext == InsertMessageRow \/ InsertUser \/ InsertEmbeddingReference

SpecInserts == Init /\ [][InsertsNext]_vars

\* messages stored and marked as embedded, in any order
EmbedTrackingNext == InsertMessageRow \/ InsertEmbeddingReference

SpecEmbedTracking == Init /\ [][EmbedTrackingNext]_vars

\* messages arriving and runs of the embedding pipeline
EmbedderNext == InsertMessageAnyTime \/ EmbedderRun

SpecEmbedder == Init /\ [][EmbedderNext]_vars

\* calls of _embed_batch, whatever the API does
EmbedBatchNext == EmbedBatch

SpecEmbedBatch == Init /\ [][EmbedBatchNext]_vars

\* one run of the command line
SpecMain == Init /\ [][MainNext]_vars

\* the messages of a cluster read back in order
OrderNext == InsertMessageAnyTime \/ SaveAssignmentsOfOneRun

SpecOrder == Init /\ [][OrderNext]_vars

\* clustering results kept in memory and saved with save_clustering_to_db
SpecSaveDb == Init /\ [][SaveDbNext]_vars

SpecCluster == Init /\ [][ClusterNext]_vars

(***************************************************************************)
(* C1  Noise accounting: every result a cluster_* method returns has       *)
(* n_noise + the sum of the values of cluster_sizes = n_samples.           *)
(***************************************************************************)
NoiseAccounting ==
    outcome = "returned" =>
        result.n_noise + SumValues(result.cluster_sizes) = result.n_samples

\* a density result with noise points beside a cluster
NoiseAccountingWitness ==
    /\ outcome = "returned"
    /\ result.method = "hdbscan"
    /\ result.n_noise > 0
    /\ result.n_clusters > 0

(***************************************************************************)
(* C2  Assignment round-trip, as stated: after save_cluster_assignments(   *)
(* run, ids, labels), get_cluster_messages(run, c) without a limit returns *)
(* exactly the stored messages whose id was given label c in the call.     *)
(***************************************************************************)
AssignmentRoundTripAsStated ==
    [][\A run \in AssignRuns, ids \in IdLists, labels \in LabelLists :
          (/\ Len(ids) = Len(labels)
           /\ SaveClusterAssignmentsCall(run, ids, labels))
          => \A c \in StoreLabels :
                ClusterMessageIds(db', run, c) =
                    {m \in DOMAIN db'.messages :
                        \E i \in DOMAIN ids : ids[i] = m /\ labels[i] = c}]_vars

(***************************************************************************)
(* C2  Assignment round-trip, amended: get_cluster_messages(run, c)        *)
(* without a limit returns exactly the stored messages whose most recently *)
(* saved label in that run is c (the last occurrence of an id counts when  *)
(* a call repeats it), and no others.                                      *)
(***************************************************************************)
AssignmentRoundTrip ==
    \A run \in AssignRuns, c \in StoreLabels :
        ClusterMessageIds(db, run, c) =
            {m \in DOMAIN db.messages : latest[<<run, m>>] = {c}}

\* after a save of two rows: a noise message and a clustered one come back
\* under their runs, and an assignment names a message that is not stored
AssignmentRoundTripWitness ==
    /\ last.op = "save_cluster_assignments"
    /\ last.outcome = "ok"
    /\ last.n_ids = 2
    /\ ClusterMessageIds(db, 1, NOISE) = {"m1"}
    /\ ClusterMessageIds(db, 2, 0) # {}
    /\ \E r \in db.clusters : r.msg \notin DOMAIN db.messages

(***************************************************************************)
(* C3  The store holds at most one assignment per (run id, message id),    *)
(* and its label is the one the most recent save of that pair gave.        *)
(***************************************************************************)
OneLabelPerPair ==
    \A p \in DOMAIN latest :
        LET rows == {r \in db.clusters : r.run = p[1] /\ r.msg = p[2]}
        IN /\ Cardinality(rows) <= 1
           /\ {r.label : r \in rows} = latest[p]

\* a call of two rows that left one row in its run: the second row took the
\* place of the first
OneLabelPerPairWitness ==
    /\ last.op = "save_cluster_assignments"
    /\ last.outcome = "ok"
    /\ last.n_ids = 2
    /\ Cardinality({r \in db.clusters : r.run = last.run}) = 1

(***************************************************************************)
(* C4  save_cluster_assignments with lists of different lengths fails with *)
(* ValueError and adds, replaces or removes no row (seen by the connection *)
(* or committed).                                                          *)
(***************************************************************************)
MismatchRejected ==
    [][(last'.op = "save_cluster_assignments" /\ last'.n_ids # last'.n_labels)
         => (last'.outcome = "ValueError" /\ db' = db /\ disk' = disk)]_vars

\* a mismatched call was refused on a store that holds assignments
MismatchRejectedWitness ==
    /\ last.op = "save_cluster_assignments"
    /\ last.n_ids # last.n_labels
    /\ last.outcome = "ValueError"
    /\ db.clusters # {}

(***************************************************************************)
(* C5  Every id save_clustering_run returns is greater than every id it    *)
(* returned before, also after runs have been deleted.                     *)
(***************************************************************************)
RunIdsIncrease ==
    \A i, j \in DOMAIN issued : i < j => issued[i] < issued[j]

\* a run is saved after an earlier one was deleted
RunIdsIncreaseWitness ==
    /\ last.op = "save_clustering_run"
    /\ Len(issued) >= 2
    /\ \E i \in 1..(Len(issued) - 1) : issued[i] \notin DOMAIN db.runs

(***************************************************************************)
(* C6  Runs are independent: save_cluster_assignments for a run leaves the *)
(* assignments of every other run and every run record as they were, and   *)
(* save_clustering_run leaves every existing run record and every          *)
(* assignment as it was.                                                   *)
(***************************************************************************)
RunsIndependent ==
    [][/\ last'.op = "save_cluster_assignments" =>
            /\ db'.runs = db.runs
            /\ {r \in db'.clusters : r.run # last'.run} =
               {r \in db.clusters : r.run # last'.run}
       /\ last'.op = "save_clustering_run" =>
            /\ db'.clusters = db.clusters
            /\ \A id \in DOMAIN db.runs :
                  id \in DOMAIN db'.runs /\ db'.runs[id] = db.runs[id]]_vars

\* assignments were saved for run 2 while run 1 has a record and assignments
RunsIndependentWitness ==
    /\ last.op = "save_cluster_assignments"
    /\ last.outcome = "ok"
    /\ last.run = 2
    /\ last.n_ids > 0
    /\ 1 \in DOMAIN db.runs
    /\ \E r \in db.clusters : r.run = 1

(***************************************************************************)
(* C9  Quality-metric precondition: when the labelling a cluster_* method  *)
(* got has at most one non-noise cluster (or only noise), the method       *)
(* returns a result without any of the three scores and does not raise.    *)
(***************************************************************************)
QualityMetricsAbsent ==
    (outcome # "none" /\ Len(call.labels) > 0 /\ NClusters(call.labels) <= 1)
        => (outcome = "returned" /\ result.metrics = {})

(***************************************************************************)
(* C10  Partial results are never persisted: no row written by a save that *)
(* failed is ever committed.                                               *)
(***************************************************************************)
NoPartialRowCommitted == \A r \in disk.clusters : ~r.partial

(***************************************************************************)
(* C7  save_clustering_to_db(result_key) for an existing result returns a  *)
(* clustering run id; get_clustering_run(that id) gives a record with the  *)
(* result's method, parameters, n_clusters and n_noise, and the result's   *)
(* assignments are in message_clusters under that run id.                  *)
(***************************************************************************)
SaveReturnsRun ==
    (lastSave.op = "save_clustering_to_db" /\ lastSave.key \in DOMAIN results)
    => /\ lastSave.outcome = "returned"
       /\ \E id \in lastSave.ret :
             /\ \E rec \in GetClusteringRun(db, id) :
                   /\ rec.method = results[lastSave.key].method
                   /\ rec.parameters = results[lastSave.key].parameters
                   /\ rec.n_clusters = results[lastSave.key].n_clusters
                   /\ rec.n_noise = results[lastSave.key].n_noise
             /\ \A i \in DOMAIN message_ids :
                   \E r \in db.clusters :
                      /\ r.run = id
                      /\ r.msg = message_ids[i]
                      /\ r.label = results[lastSave.key].labels[i]

(***************************************************************************)
(* C8  Persisting a later result through save_clustering_to_db never       *)
(* changes what an earlier save persisted: a stored (message id, label,    *)
(* method, parameters) row stays as it is, whatever the table_suffix of    *)
(* the later save.                                                         *)
(***************************************************************************)
EarlierSaveKept ==
    [][\A s \in DOMAIN suffixTables : \A m \in DOMAIN suffixTables[s] :
          /\ m \in DOMAIN suffixTables'[s]
          /\ suffixTables'[s][m] = suffixTables[s][m]]_vars

(***************************************************************************)
(* C11  A length mismatch means the run is not created: after              *)
(* save_cluster_assignments failed with ValueError for a run that has no   *)
(* assignment, clustering_runs holds no record of that run.                *)
(***************************************************************************)
RunNotCreatedOnMismatch ==
    (/\ last.op = "save_cluster_assignments"
     /\ last.outcome = "ValueError"
     /\ ~\E r \in db.clusters : r.run = last.run)
    => last.run \notin DOMAIN db.runs

(***************************************************************************)
(* C13  Below-threshold safety: cluster_hdbscan on N points with           *)
(* N < min_cluster_size returns a result with n_clusters = 0, n_noise = N  *)
(* and every label -1, and does not raise.                                 *)
(***************************************************************************)
BelowThresholdSafe ==
    (call.method = "hdbscan" /\ call.n < call.min_cluster_size)
    => /\ outcome = "returned"
       /\ result.n_clusters = 0
       /\ result.n_noise = call.n
       /\ \A i \in DOMAIN result.labels : result.labels[i] = NOISE

(***************************************************************************)
(* C16  cluster_kmeans has no noise: a result of cluster_kmeans(k) on N    *)
(* points gives each of the N points one label in 0..k-1, never -1, and    *)
(* reports n_noise = 0 and n_clusters = k.                                 *)
(***************************************************************************)
KmeansHasNoNoise ==
    (call.method = "kmeans" /\ outcome = "returned")
    => /\ DOMAIN result.labels = 1..call.n
       /\ \A i \in DOMAIN result.labels : result.labels[i] \in 0..(call.k - 1)
       /\ NOISE \notin LabelsOf(result.labels)
       /\ result.n_noise = 0
       /\ result.n_clusters = call.k

\* a result for k = 3 in which one of the three labels is given to no point
KmeansHasNoNoiseWitness ==
    /\ call.method = "kmeans"
    /\ outcome = "returned"
    /\ call.k = 3
    /\ Cardinality(LabelsOf(result.labels)) = 2

(***************************************************************************)
(* C14  get_cluster_messages returns its messages ordered by timestamp,    *)
(* most recent first: the timestamps never increase along the list,        *)
(* whatever the order in which messages and assignments were saved.        *)
(***************************************************************************)
MostRecentFirst ==
    \A c \in StoreLabels :
        LET rows == GetClusterMessages(db, 1, c, {})
        IN \A i, j \in DOMAIN rows :
              i < j => rows[i].timestamp >= rows[j].timestamp

\* a cluster of three messages, of which the first returned is more recent
\* than the last
MostRecentFirstWitness ==
    \E c \in StoreLabels :
        LET rows == GetClusterMessages(db, 1, c, {})
        IN /\ Len(rows) = 3
           /\ rows[1].timestamp > rows[3].timestamp

InspectorReadOnly ==
    [][(lastSave'.op = "analyze_cluster_samples" /\ lastSave' # lastSave)
         => /\ db' = db
            /\ disk' = disk
            /\ suffixTables' = suffixTables
            /\ results' = results
            /\ message_ids' = message_ids
            /\ embeddings' = embeddings]_vars

\* samples were drawn from a result and written to a file while the store
\* holds messages
InspectorReadOnlyWitness ==
    /\ lastSave.op = "analyze_cluster_samples"
    /\ lastSave.key \in DOMAIN results
    /\ \E m \in lastSave.ret : \E c \in DOMAIN m : Len(m[c].samples) > 0
    /\ lastSave.written # {}
    /\ DOMAIN db.messages # {}

(***************************************************************************)
(* C12  Empty input: when the collection holds no embedding, main ends     *)
(* with a non-zero status on the error load_embeddings raises, before any  *)
(* clustering method runs, and nothing is written: no result in memory, no *)
(* run record, no assignment.                                              *)
(***************************************************************************)
EmptyInputFails ==
    (pc \notin {"start", "load_embeddings"} /\ Len(embeddings) = 0)
    => /\ pc = "done"
       /\ exit = {[code |-> 1, at |-> "load_embeddings"]}
       /\ DOMAIN results = {}
       /\ db = EmptyTables
       /\ disk = EmptyTables
       /\ \A s \in DOMAIN suffixTables : DOMAIN suffixTables[s] = {}

\* main ended on an empty collection, having been asked to cluster, export
\* and save
EmptyInputFailsWitness ==
    /\ pc = "done"
    /\ Len(embeddings) = 0
    /\ args.method = "all"
    /\ args.save # {}
    /\ exit # {}

(***************************************************************************)
(* C21  get_cluster_messages with a limit L >= 0 returns min(L, size)      *)
(* messages of the cluster, none of them older than a message of the       *)
(* cluster it left out; with no limit it returns all of them.              *)
(***************************************************************************)
LimitReturnsMostRecent ==
    \A c \in StoreLabels :
        LET members == ClusterMessageIds(db, 1, c)
            all == GetClusterMessages(db, 1, c, {})
        IN /\ {all[i].id : i \in DOMAIN all} = members
           /\ Len(all) = Cardinality(members)
           /\ \A L \in 0..MaxRows :
                LET rows == GetClusterMessages(db, 1, c, {L})
                    got == {rows[i].id : i \in DOMAIN rows}
                IN /\ Len(rows) = Min2(L, Cardinality(members))
                   /\ Cardinality(got) = Len(rows)
                   /\ got \subseteq members
                   /\ \A m \in got, o \in members \ got :
                        db.messages[m].timestamp >= db.messages[o].timestamp

(***************************************************************************)
(* C29  Cluster count consistency: in every result a cluster_* method      *)
(* returns, n_clusters is the number of distinct labels other than -1,     *)
(* which is the number of keys of cluster_sizes, and -1 is not a key of    *)
(* cluster_sizes.                                                          *)
(***************************************************************************)
ClusterCountConsistent ==
    outcome = "returned"
    => /\ result.n_clusters = Cardinality(LabelsOf(result.labels) \ {NOISE})
       /\ result.n_clusters = Cardinality(DOMAIN result.cluster_sizes)
       /\ NOISE \notin DOMAIN result.cluster_sizes

(***************************************************************************)
(* C22  _make_request makes at most max_retries requests whatever the      *)
(* server answers; it returns a response only if that response has status  *)
(* 200; after a 401 or a 404 it returns None without a further request; it *)
(* returns None when every attempt failed; and stats['api_calls'] grows by *)
(* exactly the number of requests made.                                    *)
(***************************************************************************)
RequestBounded ==
    request.op = "_make_request"
    => LET made == request.made
           sent == 1..made
           final(i) == request.responses[i] \in {"200", "401", "404"}
       IN /\ made <= request.max_retries
          /\ request.api_calls = request.before + made
          /\ \A i \in sent : i < made => ~final(i)
          /\ request.ret # {}
                => /\ made > 0
                   /\ request.responses[made] = "200"
                   /\ request.ret = {"200"}
          /\ (made > 0 /\ request.responses[made] \in {"401", "404"})
                => request.ret = {}
          /\ (\A i \in 1..request.max_retries : ~final(i))
                => request.ret = {} /\ made = request.max_retries
          /\ (made < request.max_retries) => final(made)

\* a call that was rate limited and then refused: two requests of the three
\* allowed, and nothing returned
RequestBoundedWitness ==
    /\ request.op = "_make_request"
    /\ request.max_retries = 3
    /\ request.responses = <<"429", "401", "200">>
    /\ request.made = 2
    /\ request.ret = {}

(***************************************************************************)
(* C28  User activity count: after any sequence of _save_batch calls on a  *)
(* database that started empty, every user's message_count is the number   *)
(* of rows of messages authored by that user.                              *)
(***************************************************************************)
UserCountsMatch ==
    \A u \in DOMAIN users :
        users[u].message_count =
            Cardinality({m \in DOMAIN db.messages : db.messages[m].author_id = u})

(***************************************************************************)
(* C23  scrape_messages saves a checkpoint every checkpoint_interval       *)
(* messages: at a batch boundary (the end of a pass of the loop that goes  *)
(* on) the number of messages parsed and not yet saved is below            *)
(* checkpoint_interval.                                                    *)
(***************************************************************************)
CheckpointEveryInterval ==
    scraper.pc = "scraping"
    => Len(scraper.messages_buffer) < scraper.checkpoint_interval

(***************************************************************************)
(* C27  Checkpoint resume safety: when the scraper has just written its    *)
(* checkpoint file, every message it fetched and buffered in the run       *)
(* (parsed, not older than the cutoff) that is newer than the file's       *)
(* last_message_id has been passed to the database and has a row there, so *)
(* a run resuming before last_message_id leaves no such message unsaved.   *)
(***************************************************************************)
ResumeSafe ==
    (scraper.wrote /\ checkpointFile # {})
    => \A c \in checkpointFile : \A m \in scraper.fetched :
          (\A b \in c.last_message_id : m > b)
          => /\ m \in scraper.passed
             /\ ("discord_" \o ToString(m)) \in DOMAIN db.messages

\* a checkpoint written in the loop, in a run resumed from an earlier
\* checkpoint, with messages of the run newer than its last_message_id
ResumeSafeWitness ==
    /\ scraper.wrote
    /\ scraper.pc = "scraping"
    /\ scraper.runs = 2
    /\ \E c \in checkpointFile :
          /\ c.last_message_id # {}
          /\ \E m \in scraper.fetched : \A b \in c.last_message_id : m > b

(***************************************************************************)
(* C25  insert_message, insert_user and insert_embedding_reference answer  *)
(* False exactly when a row with that id already exists, and then leave    *)
(* the tables as they were; in every other case they store the row and     *)
(* answer True.                                                            *)
(***************************************************************************)
InsertFalseIffExists ==
    [][(last' # last /\ last'.op \in {"insert_message", "insert_user",
                                       "insert_embedding_reference"})
        => LET existed ==
                 CASE last'.op = "insert_message" ->
                          last'.id \in DOMAIN db.messages
                   [] last'.op = "insert_user" -> last'.id \in DOMAIN users
                   [] OTHER -> last'.id \in DOMAIN embeddings_reference
               stored ==
                 CASE last'.op = "insert_message" ->
                          last'.id \in DOMAIN db'.messages
                   [] last'.op = "insert_user" -> last'.id \in DOMAIN users'
                   [] OTHER -> last'.id \in DOMAIN embeddings_reference'
           IN /\ (last'.ret = FALSE) <=> existed
              /\ existed => /\ db' = db
                            /\ users' = users
                            /\ embeddings_reference' = embeddings_reference
              /\ ~existed => stored /\ last'.ret = TRUE]_vars

(***************************************************************************)
(* C26  Embedding tracking: get_messages_without_embeddings(min_length)    *)
(* returns exactly the stored messages that have no embeddings_reference   *)
(* row and whose content has at least min_length characters, each once, in *)
(* ascending timestamp order; and a message for which                      *)
(* insert_embedding_reference answered True is not returned.               *)
(***************************************************************************)
WithoutEmbeddingsExact ==
    \A min_length \in 0..MaxMinLength :
        LET rows == GetMessagesWithoutEmbeddings(db.messages,
                        embeddings_reference, min_length)
            got == {rows[i].id : i \in DOMAIN rows}
        IN /\ \A m \in DOMAIN db.messages :
                m \in got <=> /\ m \notin DOMAIN embeddings_reference
                              /\ Len(db.messages[m].content) >= min_length
           /\ got \subseteq DOMAIN db.messages
           /\ Cardinality(got) = Len(rows)
           /\ \A i, j \in DOMAIN rows :
                i < j => rows[i].timestamp <= rows[j].timestamp
           /\ got \cap referenced = {}

\* three messages stored: one marked as embedded, one too short for
\* min_length 3, and so one returned, older than the one marked
WithoutEmbeddingsExactWitness ==
    /\ Cardinality(DOMAIN db.messages) = 3
    /\ Cardinality(referenced) = 1
    /\ referenced \subseteq DOMAIN db.messages
    /\ Len(GetMessagesWithoutEmbeddings(db.messages, embeddings_reference, 0)) = 2
    /\ Len(GetMessagesWithoutEmbeddings(db.messages, embeddings_reference, 3)) = 1

(***************************************************************************)
(* C24  Embedding retry bound: _embed_batch makes at most max_retries API  *)
(* calls; it returns the embeddings of the first successful call; with     *)
(* retry=False the first RateLimitError or APIError is raised again after  *)
(* exactly one call; when all max_retries calls fail, the error of the     *)
(* last call is raised; and it always either returns embeddings or raises. *)
(***************************************************************************)
EmbedRetryBounded ==
    embedCall.op = "_embed_batch"
    => LET calls == embedCall.calls
           outcomes == embedCall.outcomes
           retried(i) == outcomes[i] \in {"RateLimitError", "APIError"}
       IN /\ calls <= embedCall.max_retries
          /\ embedCall.result \in {"returned", "raised"}
          /\ embedCall.result = "returned"
                => /\ calls > 0
                   /\ outcomes[calls] = "ok"
                   /\ \A i \in 1..(calls - 1) : outcomes[i] # "ok"
          /\ embedCall.result = "raised"
                => /\ embedCall.error # "none"
                   /\ calls > 0 => embedCall.error = outcomes[calls]
                   /\ calls = 0 => embedCall.max_retries = 0
          /\ (~embedCall.retry /\ embedCall.max_retries > 0 /\ retried(1))
                => /\ embedCall.result = "raised"
                   /\ calls = 1
                   /\ embedCall.error = outcomes[1]
          /\ (embedCall.max_retries > 0
              /\ \A i \in 1..embedCall.max_retries : retried(i))
                => /\ embedCall.result = "raised"
                   /\ embedCall.error = outcomes[calls]
                   /\ embedCall.retry => calls = embedCall.max_retries

\* three calls that all fail, with retry on: the error raised is the last one
EmbedRetryBoundedWitness ==
    /\ embedCall.op = "_embed_batch"
    /\ embedCall.retry
    /\ embedCall.outcomes = <<"RateLimitError", "RateLimitError", "APIError">>
    /\ embedCall.calls = 3
    /\ embedCall.result = "raised"
    /\ embedCall.error = "APIError"

====
